---- MODULE Spec2Model ----
(***************************************************************************)
(* Expression Evaluator: the Shunting-Yard parser (Parser::parse) and the  *)
(* postfix stack machine (RPNEvaluator::evaluate), modelled one loop       *)
(* iteration per action, together with the operator/function catalog.      *)
(*                                                                         *)
(* A token is a record [kind, name, val, den]:                             *)
(*   kind  the dynamic class family (Integer, Real, Boolean, Variable,     *)
(*         Operator, Function, LeftParenthesis, RightParenthesis,          *)
(*         ArgumentSeparator, Token for a token of none of these);         *)
(*   name  the concrete Operator/Function class or the Variable's name;    *)
(*   val   the Integer value, the Real numerator, or 0/1 for a Boolean;    *)
(*   den   the Real denominator (1 for every other kind).                  *)
(* A stack is a sequence whose last element is the top.                    *)
(***************************************************************************)
EXTENDS Integers, Sequences, FiniteSets, TLC

VARIABLES
    cells,          \* Variable::value_ of every Variable of the session: name -> operand or Empty
    phase,          \* position of the session: idle, parsing, postfix, evaluating, done, crashed
    infixTokens,    \* Parser::parse's argument
    pos,            \* index of the next token of the running for-loop
    outputQueue,    \* Parser::parse's outputQueue
    operatorStack,  \* Parser::parse's operatorStack
    rpnExpression,  \* RPNEvaluator::evaluate's argument
    operandStack,   \* RPNEvaluator::evaluate's operandStack
    outcome,        \* how the last call ended: [stage, status, err, value]
    undefined,      \* TRUE once the running call has executed undefined behaviour
    expected        \* the reference value of the submitted expression, NoOutcome when it has none

vars == <<cells, phase, infixTokens, pos, outputQueue, operatorStack,
          rpnExpression, operandStack, outcome, undefined, expected>>

-----------------------------------------------------------------------------
(* Bounds of the model. *)

MaxLen == 4         \* longest token sequence of the arbitrary-sequence specifications
MaxLit == 2         \* largest Integer literal of the generated expressions
MaxOps == 2         \* most binary operators in a generated parenthesized expression
MaxExponent == 10   \* largest exponent of a base beyond -1..1 whose power the model computes
MaxBase == 4        \* largest such base (MaxBase ^ MaxExponent stays a model integer)
MaxFactorial == 8   \* largest operand whose factorial the model computes

-----------------------------------------------------------------------------
(* Token model. *)

Tok(k, n, v, d) == [kind |-> k, name |-> n, val |-> v, den |-> d]

IntegerTok(n) == Tok("Integer", "", n, 1)
RealTok(n, d) == Tok("Real", "", n, d)
BooleanTok(b) == Tok("Boolean", "", IF b THEN 1 ELSE 0, 1)
VariableTok(x) == Tok("Variable", x, 0, 1)
OperatorTok(o) == Tok("Operator", o, 0, 1)
FunctionTok(f) == Tok("Function", f, 0, 1)
LeftParenthesis == Tok("LeftParenthesis", "", 0, 1)
RightParenthesis == Tok("RightParenthesis", "", 0, 1)
ArgumentSeparator == Tok("ArgumentSeparator", "", 0, 1)
PlainToken == Tok("Token", "", 0, 1)
Empty == Tok("Empty", "", 0, 1)

is_Operand(t) == t.kind \in {"Integer", "Real", "Boolean", "Variable"}
is_Operator(t) == t.kind = "Operator"
\* is<Function> that holds of no token.
is_FunctionNever(t) == FALSE

is_Function(t) == t.kind = "Function"
is_LeftParenthesis(t) == t.kind = "LeftParenthesis"
is_RightParenthesis(t) == t.kind = "RightParenthesis"
is_Parenthesis(t) == t.kind \in {"LeftParenthesis", "RightParenthesis"}
is_ArgumentSeparator(t) == t.kind = "ArgumentSeparator"
is_Integer(t) == t.kind = "Integer"
is_Real(t) == t.kind = "Real"
is_Boolean(t) == t.kind = "Boolean"
is_Variable(t) == t.kind = "Variable"

Top(s) == s[Len(s)]
Pop(s) == SubSeq(s, 1, Len(s) - 1)
Push(s, t) == Append(s, t)

-----------------------------------------------------------------------------
(* Operator/Function catalog. *)

MIN == 0
ASSIGNMENT == 1
LOGOR == 2
LOGXOR == 3
LOGAND == 4
BITOR == 5
BITXOR == 6
BITAND == 7
EQUALITY == 8
RELATIONAL == 9
BITSHIFT == 10
ADDITIVE == 11
MULTIPLICATIVE == 12
UNARY == 13
POWER == 14
POSTFIX == 15
MAX == 16

RAssocOperators == {"Power", "Assignment"}
LAssocOperators == {"Addition", "And", "Division", "Equality", "Greater",
                    "GreaterEqual", "Inequality", "Less", "LessEqual",
                    "Multiplication", "Modulus", "Nand", "Nor", "Or",
                    "Subtraction", "Xor", "Xnor"}
UnaryOperators == {"Identity", "Negation", "Not"}
PostfixOperators == {"Factorial"}
BinaryOperators == RAssocOperators \cup LAssocOperators
NonAssociative == UnaryOperators \cup PostfixOperators
Operators == BinaryOperators \cup NonAssociative

OneArgFunctions == {"Abs", "Arccos", "Arcsin", "Arctan", "Ceil", "Cos", "Exp",
                    "Floor", "Lb", "Ln", "Log", "Result", "Sin", "Sqrt", "Tan"}
TwoArgFunctions == {"Arctan2", "Max", "Min", "Pow"}
Functions == OneArgFunctions \cup TwoArgFunctions

\* is<LAssocOperator> that also holds of Power.
is_LAssocOperatorOrPower(t) == is_Operator(t) /\ t.name \in LAssocOperators \cup {"Power"}

is_LAssocOperator(t) == is_Operator(t) /\ t.name \in LAssocOperators
is_RAssocOperator(t) == is_Operator(t) /\ t.name \in RAssocOperators

\* precedence() with one level for every operator.
precedenceOneLevel(t) == UNARY

precedence(t) ==
    CASE t.name = "Power" -> POWER
      [] t.name = "Assignment" -> ASSIGNMENT
      [] t.name \in {"Addition", "Subtraction"} -> ADDITIVE
      [] t.name \in {"And", "Nand"} -> LOGAND
      [] t.name \in {"Division", "Multiplication", "Modulus"} -> MULTIPLICATIVE
      [] t.name \in {"Equality", "Inequality"} -> EQUALITY
      [] t.name \in {"Greater", "GreaterEqual", "Less", "LessEqual"} -> RELATIONAL
      [] t.name \in {"Nor", "Or", "Xor", "Xnor"} -> LOGOR
      [] t.name \in UnaryOperators \cup PostfixOperators -> UNARY

number_of_args(t) ==
    CASE is_Operator(t) /\ t.name \in BinaryOperators -> 2
      [] is_Operator(t) /\ t.name \in NonAssociative -> 1
      [] is_Function(t) /\ t.name \in OneArgFunctions -> 1
      [] is_Function(t) /\ t.name \in TwoArgFunctions -> 2

-----------------------------------------------------------------------------
(* Error messages of the two stages (the what() of the std::runtime_error). *)

MismatchedParenthesis == "Mismatched parentheses"
MisplacedSeparator == "Mismatched parentheses or misplaced argument separator"
UnknownTokenParse == "Unknown token type"
InsufficientOperands == "Error: insufficient operands"
TooManyOperands == "Error: too many operands"
EmptyStackError == "Error: Operand stack is empty"
UnknownTokenEvaluate == "Unknown token type encountered"

-----------------------------------------------------------------------------
(* Parser::parse, one infix token per step. *)

\* PopOperators dropping the operators it pops instead of queueing them.
RECURSIVE PopOperatorsDiscarding(_, _, _)
PopOperatorsDiscarding(op, out, stk) ==
    IF /\ stk # <<>> /\ is_Operator(Top(stk))
       /\ \/ precedence(Top(stk)) > precedence(op)
          \/ is_LAssocOperator(Top(stk)) /\ precedence(Top(stk)) = precedence(op)
    THEN PopOperatorsDiscarding(op, out, Pop(stk))
    ELSE [out |-> out, stk |-> stk]

\* The while loop of the operator branch: pop operators that bind at least as
\* tightly as the incoming operator op.
RECURSIVE PopOperators(_, _, _)
PopOperators(op, out, stk) ==
    IF stk # <<>> /\ is_Operator(Top(stk))
    THEN LET topOp == Top(stk)
             isLeftAssoc == is_LAssocOperator(topOp)
             isRightAssoc == is_RAssocOperator(topOp)
             higherPrecedence == precedence(topOp) > precedence(op)
             equalPrecedence == precedence(topOp) = precedence(op)
         IN  IF higherPrecedence \/ (isLeftAssoc /\ equalPrecedence)
                \/ (isRightAssoc /\ higherPrecedence)
             THEN PopOperators(op, Append(out, topOp), Pop(stk))
             ELSE [out |-> out, stk |-> stk]
    ELSE [out |-> out, stk |-> stk]

\* PopToLeftParenthesis that pops nothing.
PopToLeftParenthesisNoPop(out, stk) == [out |-> out, stk |-> stk]

\* The while loop of the RightParenthesis and ArgumentSeparator branches: pop
\* to the output until a LeftParenthesis is on top or the stack is empty.
RECURSIVE PopToLeftParenthesis(_, _)
PopToLeftParenthesis(out, stk) ==
    IF stk # <<>> /\ ~is_LeftParenthesis(Top(stk))
    THEN PopToLeftParenthesis(Append(out, Top(stk)), Pop(stk))
    ELSE [out |-> out, stk |-> stk]

ParseOk(out, stk) == [err |-> "", out |-> out, stk |-> stk]
ParseFail(msg, out, stk) == [err |-> msg, out |-> out, stk |-> stk]

\* One iteration of the for loop over infixTokens.
ParseToken(token, out, stk) ==
    IF is_Operand(token) THEN ParseOk(Append(out, token), stk)
    ELSE IF is_Operator(token) THEN
        LET r == PopOperators(token, out, stk)
        IN  ParseOk(r.out, Push(r.stk, token))
    ELSE IF is_Function(token) THEN ParseOk(out, Push(stk, token))
    ELSE IF is_LeftParenthesis(token) THEN ParseOk(out, Push(stk, token))
    ELSE IF is_RightParenthesis(token) THEN
        LET r == PopToLeftParenthesis(out, stk)
        IN  IF r.stk = <<>> \/ ~is_LeftParenthesis(Top(r.stk))
            THEN ParseFail(MismatchedParenthesis, r.out, r.stk)
            ELSE LET s == Pop(r.stk)
                 IN  IF s # <<>> /\ is_Function(Top(s))
                     THEN ParseOk(Append(r.out, Top(s)), Pop(s))
                     ELSE ParseOk(r.out, s)
    ELSE IF is_ArgumentSeparator(token) THEN
        LET r == PopToLeftParenthesis(out, stk)
        IN  IF r.stk = <<>> \/ ~is_LeftParenthesis(Top(r.stk))
            THEN ParseFail(MisplacedSeparator, r.out, r.stk)
            ELSE ParseOk(r.out, r.stk)
    ELSE ParseFail(UnknownTokenParse, out, stk)

\* ParseDrain without the test for a parenthesis.
RECURSIVE ParseDrainNoCheck(_, _)
ParseDrainNoCheck(out, stk) ==
    IF stk # <<>> THEN ParseDrainNoCheck(Append(out, Top(stk)), Pop(stk))
    ELSE [err |-> "", out |-> out, stk |-> stk]

\* The while loop after the for loop: pop what is left on the operator stack.
RECURSIVE ParseDrain(_, _)
ParseDrain(out, stk) ==
    IF stk # <<>>
    THEN IF is_Parenthesis(Top(stk))
         THEN ParseFail(MismatchedParenthesis, out, stk)
         ELSE ParseDrain(Append(out, Top(stk)), Pop(stk))
    ELSE ParseOk(out, stk)

\* Parser::parse as a whole: the scan of the tokens from an empty queue and an
\* empty stack, then the loop after the scan.  [err, out, stk].
parse(tokens) ==
    LET RECURSIVE scan(_, _, _)
        scan(i, out, stk) ==
            IF i > Len(tokens) THEN ParseDrain(out, stk)
            ELSE LET r == ParseToken(tokens[i], out, stk)
                 IN  IF r.err # "" THEN r ELSE scan(i + 1, r.out, r.stk)
    IN  scan(1, <<>>, <<>>)

-----------------------------------------------------------------------------
(* Numbers.  Integer::value_type is an arbitrary-precision integer; a       *)
(* Real::value_type is modelled as a reduced fraction val/den, den > 0.     *)
(* A Real the model does not compute (a transcendental function's result,  *)
(* an infinity or NaN) is the opaque Real: name "opaque".                  *)

AbsInt(n) == IF n < 0 THEN -n ELSE n

RECURSIVE Gcd(_, _)
Gcd(a, b) == IF b = 0 THEN a ELSE Gcd(b, a % b)

\* cpp_int division truncates toward zero; the remainder has the dividend's sign.
TruncDiv(a, b) ==
    LET q == AbsInt(a) \div AbsInt(b)
    IN  IF (a < 0) = (b < 0) THEN q ELSE -q
TruncRem(a, b) == a - b * TruncDiv(a, b)

OpaqueReal == Tok("Real", "opaque", 0, 1)
is_Opaque(t) == t.name = "opaque"

\* The Real n/d, reduced; d = 0 is a division by a zero Real (inf or NaN).
MkReal(n, d) ==
    IF d = 0 THEN OpaqueReal
    ELSE LET g == Gcd(AbsInt(n), AbsInt(d))
             s == IF d < 0 THEN -1 ELSE 1
         IN  RealTok(s * (n \div g), s * (d \div g))

\* static_cast<Real::value_type>(integer) or the Real itself.
AsReal(t) == IF is_Integer(t) THEN RealTok(t.val, 1) ELSE t

RealAdd(a, b) == IF is_Opaque(a) \/ is_Opaque(b) THEN OpaqueReal
                 ELSE MkReal(a.val * b.den + b.val * a.den, a.den * b.den)
RealSub(a, b) == IF is_Opaque(a) \/ is_Opaque(b) THEN OpaqueReal
                 ELSE MkReal(a.val * b.den - b.val * a.den, a.den * b.den)
RealMul(a, b) == IF is_Opaque(a) \/ is_Opaque(b) THEN OpaqueReal
                 ELSE MkReal(a.val * b.val, a.den * b.den)
RealDiv(a, b) == IF is_Opaque(a) \/ is_Opaque(b) THEN OpaqueReal
                 ELSE MkReal(a.val * b.den, a.den * b.val)
RealIsZero(a) == ~is_Opaque(a) /\ a.val = 0
RealLess(a, b) == ~is_Opaque(a) /\ ~is_Opaque(b) /\ a.val * b.den < b.val * a.den
RealEq(a, b) == ~is_Opaque(a) /\ ~is_Opaque(b) /\ a.val * b.den = b.val * a.den
RealMax(a, b) == IF is_Opaque(a) \/ is_Opaque(b) THEN OpaqueReal
                 ELSE IF RealLess(a, b) THEN b ELSE a
RealMin(a, b) == IF is_Opaque(a) \/ is_Opaque(b) THEN OpaqueReal
                 ELSE IF RealLess(b, a) THEN b ELSE a
RealFloor(a) == IF is_Opaque(a) THEN OpaqueReal ELSE RealTok(a.val \div a.den, 1)
RealCeil(a) == IF is_Opaque(a) THEN OpaqueReal ELSE RealTok(-((-a.val) \div a.den), 1)

\* b to the power e >= 0 by repeated multiplication.
RECURSIVE PowLoop(_, _)
PowLoop(b, e) ==
    IF e = 0 THEN 1
    ELSE IF b = 0 THEN 0
    ELSE IF b = 1 THEN 1
    ELSE IF b = -1 THEN (IF e % 2 = 0 THEN 1 ELSE -1)
    ELSE b * PowLoop(b, e - 1)

\* static_cast<unsigned int>(cpp_int): the low 32 bits, as two halves
\* (value = hi * HalfWord + lo).
UIntBits == 32
HalfWord == 2 ^ (UIntBits \div 2)
UnsignedCast(e) == [hi |-> (e \div HalfWord) % HalfWord, lo |-> e % HalfWord]

\* An Integer literal of more than UIntBits bits: h * 2 ^ UIntBits + l with
\* h > 0, the low word l in val.  The model computes with such an Integer in
\* UnsignedCast only, which keeps the low word.
WideIntegerTok(h, l) == Tok("Integer", "wide", l, h)

\* boost::multiprecision::pow(base, unsigned).  With hi # 0 the exponent is
\* at least HalfWord and the power is computed for the bases -1, 0, 1 only.
IntPow(b, u) ==
    IF u.hi = 0 THEN PowLoop(b, u.lo)
    ELSE IF b = -1 THEN (IF u.lo % 2 = 0 THEN 1 ELSE -1)
    ELSE b

\* FactorialLoop with the loop condition i < n.
RECURSIVE FactorialLoopExclusive(_)
FactorialLoopExclusive(n) == IF n <= 1 THEN 1 ELSE (n - 1) * FactorialLoopExclusive(n - 1)

\* Integer::factorial's loop.
RECURSIVE FactorialLoop(_)
FactorialLoop(n) == IF n <= 0 THEN 1 ELSE n * FactorialLoop(n - 1)

-----------------------------------------------------------------------------
(* RPNEvaluator::evaluate, one postfix token per step.  A step yields       *)
(* [st, err, stk, cells]: st = "ok" (the loop goes on), "error" (a         *)
(* std::runtime_error with what() = err was thrown) or "ub" (the step      *)
(* executed undefined behaviour, described by err).                        *)

EvOk(stk, c) == [st |-> "ok", err |-> "", stk |-> stk, cells |-> c]
EvThrow(msg, stk, c) == [st |-> "error", err |-> msg, stk |-> stk, cells |-> c]
EvUB(what, stk, c) == [st |-> "ub", err |-> what, stk |-> stk, cells |-> c]

TopOfEmptyStack == "top() of an empty std::stack"
NullDereference == "dereference of a null shared_ptr"

DivisionByZero == "Division by zero"
BoostDivisionByZero == "Integer Division by zero."
AssignmentToNonVariable == "Error: assignment to a non-variable."
UnsupportedAssignment == "Error: Unsupported assignment operand type."
VariableNotInitialized == "Error: variable not initialized"
VariableNotInitializedNot == "Error: variable not initialized in NOT operation."
InvalidOperandTypeExpected == "Invalid operand type: Expected "
NegativeFactorial == "Factorial is not defined for negative integers."
UnsupportedOperator == "Unsupported operator"
UnsupportedFunction == "Unsupported function"

\* auto value = operandStack.top(); operandStack.pop();
\* ok = FALSE: top() was called on an empty stack.
PopOne(stk) ==
    IF stk = <<>> THEN [ok |-> FALSE, value |-> Empty, rest |-> stk]
    ELSE [ok |-> TRUE, value |-> Top(stk), rest |-> Pop(stk)]

\* PopTwo with the operands in the other order.
PopTwoSwapped(stk) ==
    IF stk = <<>> THEN [ok |-> FALSE, left |-> Empty, right |-> Empty, rest |-> stk]
    ELSE IF Len(stk) = 1 THEN [ok |-> FALSE, left |-> Empty, right |-> Top(stk), rest |-> Pop(stk)]
    ELSE [ok |-> TRUE, left |-> Top(stk), right |-> Top(Pop(stk)), rest |-> Pop(Pop(stk))]

\* auto right = top(); pop(); auto left = top(); pop();
PopTwo(stk) ==
    IF stk = <<>> THEN [ok |-> FALSE, left |-> Empty, right |-> Empty, rest |-> stk]
    ELSE IF Len(stk) = 1 THEN [ok |-> FALSE, left |-> Empty, right |-> Top(stk), rest |-> Pop(stk)]
    ELSE [ok |-> TRUE, left |-> Top(Pop(stk)), right |-> Top(stk), rest |-> Pop(Pop(stk))]

\* pop_operand_from_stack<T>: [err, v, stk]
pop_operand_from_stack(kind, stk) ==
    IF stk = <<>> THEN [err |-> EmptyStackError, v |-> Empty, stk |-> stk]
    ELSE IF Top(stk).kind # kind
         THEN [err |-> InvalidOperandTypeExpected, v |-> Empty, stk |-> Pop(stk)]
         ELSE [err |-> "", v |-> Top(stk), stk |-> Pop(stk)]

is_Numeric(t) == is_Integer(t) \/ is_Real(t)

IntArith(name, a, b) ==
    CASE name = "Addition" -> a + b
      [] name = "Subtraction" -> a - b
      [] name = "Multiplication" -> a * b
      [] name = "Max" -> IF a < b THEN b ELSE a
      [] name = "Min" -> IF b < a THEN b ELSE a

RealArith(name, a, b) ==
    CASE name = "Addition" -> RealAdd(a, b)
      [] name = "Subtraction" -> RealSub(a, b)
      [] name = "Multiplication" -> RealMul(a, b)
      [] name = "Max" -> RealMax(a, b)
      [] name = "Min" -> RealMin(a, b)

\* The branches of Addition, Subtraction, Multiplication, Max and Min:
\* Integer with Integer, else both operands read as Real; reading an operand
\* that is neither through convert<Real>(..)->value() dereferences null.
EvalArithmetic(name, stk, c) ==
    LET p == PopTwo(stk)
    IN  IF ~p.ok THEN EvUB(TopOfEmptyStack, p.rest, c)
        ELSE IF is_Integer(p.left) /\ is_Integer(p.right)
        THEN EvOk(Push(p.rest, IntegerTok(IntArith(name, p.left.val, p.right.val))), c)
        ELSE IF ~is_Numeric(p.left) \/ ~is_Numeric(p.right)
        THEN EvUB(NullDereference, p.rest, c)
        ELSE EvOk(Push(p.rest, RealArith(name, AsReal(p.left), AsReal(p.right))), c)

EvalIdentity(stk, c) ==
    LET p == PopOne(stk)
    IN  IF ~p.ok THEN EvUB(TopOfEmptyStack, p.rest, c)
        ELSE IF is_Integer(p.value) THEN EvOk(Push(p.rest, IntegerTok(p.value.val)), c)
        ELSE IF is_Real(p.value) THEN EvOk(Push(p.rest, p.value), c)
        ELSE EvThrow("Invalid operand type for identity", p.rest, c)

EvalNegation(stk, c) ==
    LET p == PopOne(stk)
        operand == p.value
    IN  IF ~p.ok THEN EvUB(TopOfEmptyStack, p.rest, c)
        ELSE IF is_Variable(operand) /\ c[operand.name] = Empty
        THEN EvThrow(VariableNotInitialized, p.rest, c)
        ELSE IF is_Integer(operand) THEN EvOk(Push(p.rest, IntegerTok(-operand.val)), c)
        ELSE IF is_Real(operand)
        THEN EvOk(Push(p.rest, IF is_Opaque(operand) THEN OpaqueReal
                               ELSE RealTok(-operand.val, operand.den)), c)
        ELSE EvThrow("Invalid operand type for negation", p.rest, c)

\* EvalAssignment storing the value in every Variable of the session.
EvalAssignmentAllCells(stk, c) ==
    LET p == PopTwo(stk)
    IN  IF ~p.ok THEN EvUB(TopOfEmptyStack, p.rest, c)
        ELSE IF ~is_Variable(p.left) THEN EvThrow(AssignmentToNonVariable, p.rest, c)
        ELSE IF is_Boolean(p.right) \/ is_Integer(p.right) \/ is_Real(p.right)
        THEN EvOk(Push(p.rest, p.left), [n \in DOMAIN c |-> p.right])
        ELSE EvThrow(UnsupportedAssignment, p.rest, c)

\* EvalAssignment without the test of the cast to Variable.
EvalAssignmentUnchecked(stk, c) ==
    LET p == PopTwo(stk)
    IN  IF ~p.ok THEN EvUB(TopOfEmptyStack, p.rest, c)
        ELSE IF ~is_Variable(p.left) THEN EvUB(NullDereference, p.rest, c)
        ELSE IF is_Boolean(p.right) \/ is_Integer(p.right) \/ is_Real(p.right)
        THEN EvOk(Push(p.rest, p.left), [c EXCEPT ![p.left.name] = p.right])
        ELSE EvThrow(UnsupportedAssignment, p.rest, c)

EvalAssignment(stk, c) ==
    LET p == PopTwo(stk)
        variableOperand == p.left
        valueOperand == p.right
    IN  IF ~p.ok THEN EvUB(TopOfEmptyStack, p.rest, c)
        ELSE IF ~is_Variable(variableOperand)
        THEN EvThrow(AssignmentToNonVariable, p.rest, c)
        ELSE IF is_Boolean(valueOperand) \/ is_Integer(valueOperand) \/ is_Real(valueOperand)
        THEN EvOk(Push(p.rest, variableOperand),
                  [c EXCEPT ![variableOperand.name] = valueOperand])
        ELSE EvThrow(UnsupportedAssignment, p.rest, c)

\* EvalDivision with every quotient computed as a Real.
EvalDivisionAlwaysReal(stk, c) ==
    LET p == PopTwo(stk)
    IN  IF ~p.ok THEN EvUB(TopOfEmptyStack, p.rest, c)
        ELSE IF ~is_Numeric(p.left) \/ ~is_Numeric(p.right)
        THEN EvUB(NullDereference, p.rest, c)
        ELSE IF RealIsZero(AsReal(p.right)) THEN EvThrow(DivisionByZero, p.rest, c)
        ELSE EvOk(Push(p.rest, RealDiv(AsReal(p.left), AsReal(p.right))), c)

\* EvalDivision with the zero test in the Integer branch only.
EvalDivisionIntegerCheckOnly(stk, c) ==
    LET p == PopTwo(stk)
    IN  IF ~p.ok THEN EvUB(TopOfEmptyStack, p.rest, c)
        ELSE IF is_Integer(p.left) /\ is_Integer(p.right)
        THEN IF p.right.val = 0 THEN EvThrow(DivisionByZero, p.rest, c)
             ELSE EvOk(Push(p.rest, IntegerTok(TruncDiv(p.left.val, p.right.val))), c)
        ELSE IF ~is_Numeric(p.left) \/ ~is_Numeric(p.right)
        THEN EvUB(NullDereference, p.rest, c)
        ELSE EvOk(Push(p.rest, RealDiv(AsReal(p.left), AsReal(p.right))), c)

EvalDivision(stk, c) ==
    LET p == PopTwo(stk)
    IN  IF ~p.ok THEN EvUB(TopOfEmptyStack, p.rest, c)
        ELSE IF is_Integer(p.left) /\ is_Integer(p.right)
        THEN IF p.right.val = 0 THEN EvThrow(DivisionByZero, p.rest, c)
             ELSE EvOk(Push(p.rest, IntegerTok(TruncDiv(p.left.val, p.right.val))), c)
        ELSE IF ~is_Numeric(p.left) \/ ~is_Numeric(p.right)
        THEN EvUB(NullDereference, p.rest, c)
        ELSE IF RealIsZero(AsReal(p.right)) THEN EvThrow(DivisionByZero, p.rest, c)
        ELSE EvOk(Push(p.rest, RealDiv(AsReal(p.left), AsReal(p.right))), c)

EvalModulus(stk, c) ==
    LET r == pop_operand_from_stack("Integer", stk)
        l == pop_operand_from_stack("Integer", r.stk)
    IN  IF r.err # "" THEN EvThrow(r.err, r.stk, c)
        ELSE IF l.err # "" THEN EvThrow(l.err, l.stk, c)
        ELSE IF r.v.val = 0 THEN EvThrow(BoostDivisionByZero, l.stk, c)
        ELSE EvOk(Push(l.stk, IntegerTok(TruncRem(l.v.val, r.v.val))), c)

\* A power the model computes: a base in -1..1, or a small base and exponent.
PowComputable(b, e) == AbsInt(b) <= 1 \/ (AbsInt(b) <= MaxBase /\ e <= MaxExponent)
IntPowComputable(b, u) == AbsInt(b) <= 1 \/ (u.hi = 0 /\ PowComputable(b, u.lo))
EvExhausted(stk, c) == [st |-> "exhausted", err |-> "value too large to compute", stk |-> stk, cells |-> c]

\* boost::multiprecision::pow of two Reals: computed for an integral exponent.
RealPow(b, e) ==
    IF is_Opaque(b) \/ is_Opaque(e) \/ e.den # 1 \/ ~PowComputable(b.val, AbsInt(e.val))
       \/ ~PowComputable(b.den, AbsInt(e.val))
    THEN OpaqueReal
    ELSE IF e.val >= 0 THEN MkReal(PowLoop(b.val, e.val), PowLoop(b.den, e.val))
    ELSE MkReal(PowLoop(b.den, -e.val), PowLoop(b.val, -e.val))

\* EvalPower without the branch for a negative exponent.
EvalPowerUnsignedExponent(stk, c) ==
    LET p == PopTwo(stk)
    IN  IF ~p.ok THEN EvUB(TopOfEmptyStack, p.rest, c)
        ELSE IF is_Integer(p.left) /\ is_Integer(p.right)
        THEN IF ~IntPowComputable(p.left.val, UnsignedCast(p.right.val))
             THEN EvExhausted(p.rest, c)
             ELSE EvOk(Push(p.rest, IntegerTok(IntPow(p.left.val, UnsignedCast(p.right.val)))), c)
        ELSE IF ~is_Numeric(p.left) \/ ~is_Numeric(p.right)
        THEN EvUB(NullDereference, p.rest, c)
        ELSE EvOk(Push(p.rest, RealPow(AsReal(p.left), AsReal(p.right))), c)

EvalPower(stk, c) ==
    LET p == PopTwo(stk)
        base == p.left
        exponent == p.right
    IN  IF ~p.ok THEN EvUB(TopOfEmptyStack, p.rest, c)
        ELSE IF is_Integer(base) /\ is_Integer(exponent)
        THEN IF exponent.val < 0
             THEN IF ~IntPowComputable(base.val, UnsignedCast(-exponent.val))
                  THEN EvExhausted(p.rest, c)
                  ELSE EvOk(Push(p.rest, RealDiv(RealTok(1, 1),
                           RealTok(IntPow(base.val, UnsignedCast(-exponent.val)), 1))), c)
             ELSE IF ~IntPowComputable(base.val, UnsignedCast(exponent.val))
                  THEN EvExhausted(p.rest, c)
                  ELSE EvOk(Push(p.rest, IntegerTok(IntPow(base.val, UnsignedCast(exponent.val)))), c)
        ELSE IF ~is_Numeric(base) \/ ~is_Numeric(exponent)
        THEN EvUB(NullDereference, p.rest, c)
        ELSE EvOk(Push(p.rest, RealPow(AsReal(base), AsReal(exponent))), c)

\* BoolOp with Xnor computed as Xor.
BoolOpXnorAsXor(name, a, b) ==
    CASE name = "And" -> a /\ b
      [] name = "Or" -> a \/ b
      [] name = "Nand" -> ~(a /\ b)
      [] name = "Nor" -> ~(a \/ b)
      [] name = "Xor" -> a # b
      [] name = "Xnor" -> a # b

BoolOp(name, a, b) ==
    CASE name = "And" -> a /\ b
      [] name = "Or" -> a \/ b
      [] name = "Nand" -> ~(a /\ b)
      [] name = "Nor" -> ~(a \/ b)
      [] name = "Xor" -> a # b
      [] name = "Xnor" -> a = b

LogicalMessage(name) ==
    CASE name = "And" -> "Error: AND operation requires boolean operands."
      [] name = "Or" -> "Error: OR operation requires boolean operands."
      [] OTHER -> "Error: Null operand encountered in " \o name \o " operation."

\* The branches of And, Or, Nand, Nor, Xor, Xnor: both operands must be Boolean objects.
EvalLogical(name, stk, c) ==
    LET p == PopTwo(stk)
    IN  IF ~p.ok THEN EvUB(TopOfEmptyStack, p.rest, c)
        ELSE IF ~is_Boolean(p.left) \/ ~is_Boolean(p.right)
        THEN EvThrow(LogicalMessage(name), p.rest, c)
        ELSE EvOk(Push(p.rest, BooleanTok(BoolOp(name, p.left.val = 1, p.right.val = 1))), c)

\* EvalNot storing the negated value in the Variable it read.
EvalNotInPlace(stk, c) ==
    LET p == PopOne(stk)
        operand == p.value
    IN  IF ~p.ok THEN EvUB(TopOfEmptyStack, p.rest, c)
        ELSE IF is_Variable(operand) /\ c[operand.name] = Empty
        THEN EvThrow(VariableNotInitializedNot, p.rest, c)
        ELSE LET value == IF is_Variable(operand) THEN c[operand.name] ELSE operand
             IN  IF ~is_Boolean(value)
                 THEN EvThrow("Error: NOT operation requires a boolean operand.", p.rest, c)
                 ELSE EvOk(Push(p.rest, BooleanTok(value.val # 1)),
                           IF is_Variable(operand)
                           THEN [c EXCEPT ![operand.name] = BooleanTok(value.val # 1)]
                           ELSE c)

EvalNot(stk, c) ==
    LET p == PopOne(stk)
        operand == p.value
    IN  IF ~p.ok THEN EvUB(TopOfEmptyStack, p.rest, c)
        ELSE IF is_Variable(operand) /\ c[operand.name] = Empty
        THEN EvThrow(VariableNotInitializedNot, p.rest, c)
        ELSE LET value == IF is_Variable(operand) THEN c[operand.name] ELSE operand
             IN  IF ~is_Boolean(value)
                 THEN EvThrow("Error: NOT operation requires a boolean operand.", p.rest, c)
                 ELSE EvOk(Push(p.rest, BooleanTok(value.val # 1)), c)

Cmp(name, a, b) ==
    CASE name = "Equality" -> a = b
      [] name = "Inequality" -> a # b
      [] name = "Greater" -> a > b
      [] name = "GreaterEqual" -> a >= b
      [] name = "Less" -> a < b
      [] name = "LessEqual" -> a <= b

\* The branches of Equality .. LessEqual: the chain of type tests, then the
\* comparison of two Integers, of two numbers as Reals (fractions, compared
\* cross-multiplied) or of two Booleans as 0/1.  A comparison with an opaque
\* Real has a value the model does not compute: it is FALSE here.
EvalCompare(name, stk, c) ==
    LET p == PopTwo(stk)
        l == AsReal(p.left)
        r == AsReal(p.right)
    IN  IF ~p.ok THEN EvUB(TopOfEmptyStack, p.rest, c)
        ELSE IF is_Integer(p.left) /\ is_Integer(p.right)
        THEN EvOk(Push(p.rest, BooleanTok(Cmp(name, p.left.val, p.right.val))), c)
        ELSE IF is_Numeric(p.left) /\ is_Numeric(p.right)
        THEN EvOk(Push(p.rest, BooleanTok(~is_Opaque(l) /\ ~is_Opaque(r)
                                          /\ Cmp(name, l.val * r.den, r.val * l.den))), c)
        ELSE IF is_Boolean(p.left) /\ is_Boolean(p.right)
        THEN EvOk(Push(p.rest, BooleanTok(Cmp(name, p.left.val, p.right.val))), c)
        ELSE EvThrow("Unsupported operand types for " \o name, p.rest, c)

EvalFactorial(stk, c) ==
    LET r == pop_operand_from_stack("Integer", stk)
    IN  IF r.err # "" THEN EvThrow(r.err, r.stk, c)
        ELSE IF r.v.val < 0 THEN EvThrow(NegativeFactorial, r.stk, c)
        ELSE IF r.v.val > MaxFactorial THEN EvExhausted(r.stk, c)
        ELSE EvOk(Push(r.stk, IntegerTok(FactorialLoop(r.v.val))), c)

\* Functions.
EvalAbs(stk, c) ==
    LET p == PopOne(stk)
    IN  IF ~p.ok THEN EvUB(TopOfEmptyStack, p.rest, c)
        ELSE IF is_Integer(p.value) THEN EvOk(Push(p.rest, IntegerTok(AbsInt(p.value.val))), c)
        ELSE IF is_Real(p.value)
        THEN EvOk(Push(p.rest, IF is_Opaque(p.value) THEN OpaqueReal
                               ELSE RealTok(AbsInt(p.value.val), p.value.den)), c)
        ELSE EvThrow("Invalid operand type for absolute value", p.rest, c)

\* boost's acos, asin, atan, log, log2, sin, cos, tan, sqrt, exp are not
\* computed; ceil and floor are.
RealFn(name, x) ==
    CASE name = "Ceil" -> RealCeil(x)
      [] name = "Floor" -> RealFloor(x)
      [] OTHER -> OpaqueReal

\* The branches of Arccos .. Exp: pop_operand_from_stack<Real>, then the function.
EvalRealFunction(name, stk, c) ==
    LET r == pop_operand_from_stack("Real", stk)
    IN  IF r.err # "" THEN EvThrow(r.err, r.stk, c)
        ELSE EvOk(Push(r.stk, RealFn(name, r.v)), c)

EvalArctan2(stk, c) ==
    LET p == PopTwo(stk)
    IN  IF ~p.ok THEN EvUB(TopOfEmptyStack, p.rest, c)
        ELSE IF ~is_Real(p.left) \/ ~is_Real(p.right)
        THEN EvUB(NullDereference, p.rest, c)
        ELSE EvOk(Push(p.rest, OpaqueReal), c)

EvalPow(stk, c) ==
    LET p == PopTwo(stk)
        base == p.left
        exponent == p.right
    IN  IF ~p.ok THEN EvUB(TopOfEmptyStack, p.rest, c)
        ELSE IF is_Integer(base) /\ is_Integer(exponent)
        THEN IF ~IntPowComputable(base.val, UnsignedCast(exponent.val))
             THEN EvExhausted(p.rest, c)
             ELSE EvOk(Push(p.rest, IntegerTok(IntPow(base.val, UnsignedCast(exponent.val)))), c)
        ELSE IF ~is_Numeric(base) \/ ~is_Numeric(exponent)
        THEN EvUB(NullDereference, p.rest, c)
        ELSE EvOk(Push(p.rest, RealPow(AsReal(base), AsReal(exponent))), c)

EvalOperator(token, stk, c) ==
    CASE token.name = "Identity" -> EvalIdentity(stk, c)
      [] token.name = "Negation" -> EvalNegation(stk, c)
      [] token.name = "Assignment" -> EvalAssignment(stk, c)
      [] token.name \in {"Addition", "Subtraction", "Multiplication"} ->
            EvalArithmetic(token.name, stk, c)
      [] token.name = "Division" -> EvalDivision(stk, c)
      [] token.name = "Modulus" -> EvalModulus(stk, c)
      [] token.name = "Power" -> EvalPower(stk, c)
      [] token.name \in {"And", "Or", "Nand", "Nor", "Xor", "Xnor"} ->
            EvalLogical(token.name, stk, c)
      [] token.name = "Not" -> EvalNot(stk, c)
      [] token.name \in {"Equality", "Inequality", "Greater", "GreaterEqual",
                         "Less", "LessEqual"} -> EvalCompare(token.name, stk, c)
      [] token.name = "Factorial" -> EvalFactorial(stk, c)
      [] OTHER -> EvThrow(UnsupportedOperator, stk, c)

EvalFunction(token, stk, c) ==
    CASE token.name = "Abs" -> EvalAbs(stk, c)
      [] token.name \in {"Arccos", "Arcsin", "Arctan", "Ceil", "Floor", "Ln", "Lb",
                         "Sin", "Cos", "Tan", "Sqrt", "Exp"} ->
            EvalRealFunction(token.name, stk, c)
      [] token.name = "Arctan2" -> EvalArctan2(stk, c)
      [] token.name \in {"Max", "Min"} -> EvalArithmetic(token.name, stk, c)
      [] token.name = "Pow" -> EvalPow(stk, c)
      [] OTHER -> EvThrow(UnsupportedFunction, stk, c)

\* EvalToken going on to the next token after one of no accepted kind.
EvalTokenSkippingUnknown(token, stk, c) ==
    IF is_Operand(token) THEN EvOk(Push(stk, token), c)
    ELSE IF is_Operator(token) THEN EvalOperator(token, stk, c)
    ELSE IF is_Function(token) THEN EvalFunction(token, stk, c)
    ELSE EvOk(stk, c)

\* One iteration of the for loop over rpnExpression.
EvalToken(token, stk, c) ==
    IF is_Operand(token) THEN EvOk(Push(stk, token), c)
    ELSE IF is_Operator(token) THEN EvalOperator(token, stk, c)
    ELSE IF is_Function(token) THEN EvalFunction(token, stk, c)
    ELSE EvThrow(UnknownTokenEvaluate, stk, c)

\* The catalog's rules Factorial::evaluate, Negation::evaluate,
\* Assignment::evaluate, Equality::evaluate .. LessEqual::evaluate and
\* Modulus::evaluate (operator.cpp), called with the operands in
\* left-to-right order: [st, err, value, cells].  The cast of an operand of
\* another type to Integer is null, and the rules of Factorial, Negation,
\* Equality .. LessEqual and Modulus use it unchecked.
CatalogEvaluate(token, operands, c) ==
    LET rule(st, err, value, cc) == [st |-> st, err |-> err, value |-> value, cells |-> cc]
        null == rule("ub", NullDereference, Empty, c)
    IN  CASE token.name = "Factorial" ->
               IF ~is_Integer(operands[1]) THEN null
               ELSE IF operands[1].val > MaxFactorial
               THEN rule("exhausted", "value too large to compute", Empty, c)
               ELSE rule("ok", "", IntegerTok(FactorialLoop(operands[1].val)), c)
          [] token.name = "Negation" ->
               IF ~is_Integer(operands[1]) THEN null
               ELSE rule("ok", "", IntegerTok(-operands[1].val), c)
          [] token.name = "Assignment" ->
               IF ~is_Variable(operands[1])
               THEN rule("error", "Assignment target must be a variable", Empty, c)
               ELSE rule("ok", "", operands[2], [c EXCEPT ![operands[1].name] = operands[2]])
          [] token.name \in {"Equality", "Inequality", "Greater", "GreaterEqual",
                             "Less", "LessEqual"} ->
               IF ~is_Integer(operands[1]) \/ ~is_Integer(operands[2]) THEN null
               ELSE rule("ok", "", BooleanTok(Cmp(token.name, operands[1].val,
                                                  operands[2].val)), c)
          [] token.name = "Modulus" ->
               IF ~is_Integer(operands[1]) \/ ~is_Integer(operands[2]) THEN null
               ELSE IF operands[2].val = 0 THEN rule("error", DivisionByZero, Empty, c)
               ELSE rule("ok", "", IntegerTok(TruncRem(operands[1].val, operands[2].val)), c)

\* EvalReturn without the size check: returns the top whenever there is one.
EvalReturnNoSizeCheck(stk) ==
    IF stk = <<>> THEN [err |-> TooManyOperands, value |-> Empty]
    ELSE [err |-> "", value |-> Top(stk)]

\* The check after the loop and the return.
EvalReturn(stk) ==
    IF Len(stk) # 1 THEN [err |-> TooManyOperands, value |-> Empty]
    ELSE [err |-> "", value |-> Top(stk)]

-----------------------------------------------------------------------------
(* The session: expressions are submitted one after the other; each is      *)
(* parsed and its postfix evaluated (or a postfix sequence is handed to    *)
(* evaluate directly).  The Variable cells outlive the calls.              *)

Names == {"x", "y"}

NoOutcome == [stage |-> "none", status |-> "none", err |-> "", value |-> Empty]
Returned(stage, value) == [stage |-> stage, status |-> "ok", err |-> "", value |-> value]
Failed(stage, msg) == [stage |-> stage, status |-> "error", err |-> msg, value |-> Empty]
Crashed == [stage |-> "evaluate", status |-> "crash", err |-> "", value |-> Empty]
Exhausted == [stage |-> "evaluate", status |-> "exhausted", err |-> "", value |-> Empty]

\* What a build can do once evaluate has executed undefined behaviour: the
\* process dies, or the call goes on with whatever it read and ends by
\* returning some operand or by throwing.
UndefinedOutcomes ==
    {Crashed, Returned("evaluate", IntegerTok(0)), Failed("evaluate", "Invalid operand type")}

Init ==
    /\ cells = [n \in Names |-> Empty]
    /\ phase = "idle"
    /\ infixTokens = <<>>
    /\ pos = 1
    /\ outputQueue = <<>>
    /\ operatorStack = <<>>
    /\ rpnExpression = <<>>
    /\ operandStack = <<>>
    /\ outcome = NoOutcome
    /\ undefined = FALSE
    /\ expected = NoOutcome

\* The caller hands the infix sequence of one expression to Parser::parse.
Submit(tokens, reference) ==
    /\ phase = "idle"
    /\ phase' = "parsing"
    /\ infixTokens' = tokens
    /\ pos' = 1
    /\ outputQueue' = <<>>
    /\ operatorStack' = <<>>
    /\ rpnExpression' = <<>>
    /\ operandStack' = <<>>
    /\ outcome' = NoOutcome
    /\ undefined' = FALSE
    /\ expected' = reference
    /\ UNCHANGED cells

\* The caller hands a postfix sequence to RPNEvaluator::evaluate directly.
SubmitPostfix(tokens) ==
    /\ phase = "idle"
    /\ phase' = "postfix"
    /\ infixTokens' = <<>>
    /\ pos' = 1
    /\ outputQueue' = <<>>
    /\ operatorStack' = <<>>
    /\ rpnExpression' = tokens
    /\ operandStack' = <<>>
    /\ outcome' = NoOutcome
    /\ undefined' = FALSE
    /\ expected' = NoOutcome
    /\ UNCHANGED cells

\* ParseStep putting a fresh copy of a Variable in the queue: the copy holds
\* no value.
ParseStepCopyingOperands ==
    /\ phase = "parsing"
    /\ pos <= Len(infixTokens)
    /\ LET r == ParseToken(infixTokens[pos], outputQueue, operatorStack)
       IN  /\ outputQueue' = r.out
           /\ operatorStack' = r.stk
           /\ IF r.err = ""
              THEN /\ pos' = pos + 1
                   /\ UNCHANGED <<phase, outcome>>
              ELSE /\ phase' = "done"
                   /\ outcome' = Failed("parse", r.err)
                   /\ UNCHANGED pos
    /\ cells' = IF is_Variable(infixTokens[pos])
                THEN [cells EXCEPT ![infixTokens[pos].name] = Empty]
                ELSE cells
    /\ UNCHANGED <<infixTokens, rpnExpression, operandStack, undefined, expected>>

\* Parser::parse: one iteration of the loop over infixTokens.
ParseStep ==
    /\ phase = "parsing"
    /\ pos <= Len(infixTokens)
    /\ LET r == ParseToken(infixTokens[pos], outputQueue, operatorStack)
       IN  /\ outputQueue' = r.out
           /\ operatorStack' = r.stk
           /\ IF r.err = ""
              THEN /\ pos' = pos + 1
                   /\ UNCHANGED <<phase, outcome>>
              ELSE /\ phase' = "done"
                   /\ outcome' = Failed("parse", r.err)
                   /\ UNCHANGED pos
    /\ UNCHANGED <<cells, infixTokens, rpnExpression, operandStack, undefined, expected>>

\* Parser::parse: the loop after the scan, and the return.
ParseEnd ==
    /\ phase = "parsing"
    /\ pos > Len(infixTokens)
    /\ LET r == ParseDrain(outputQueue, operatorStack)
       IN  /\ outputQueue' = r.out
           /\ operatorStack' = r.stk
           /\ IF r.err = ""
              THEN /\ phase' = "postfix"
                   /\ rpnExpression' = r.out
                   /\ outcome' = Returned("parse", Empty)
              ELSE /\ phase' = "done"
                   /\ outcome' = Failed("parse", r.err)
                   /\ UNCHANGED rpnExpression
    /\ UNCHANGED <<cells, infixTokens, pos, operandStack, undefined, expected>>

\* EvalEntry without the check for an empty sequence.
EvalEntryNoCheck(rpn) == ""

\* RPNEvaluator::evaluate: the entry check on the postfix sequence.
EvalEntry(rpn) == IF rpn = <<>> THEN InsufficientOperands ELSE ""

\* RPNEvaluator::evaluate as a whole: the entry check, the loop over the
\* tokens from an empty operand stack, then the check after the loop.
\* [st, err, value, cells]; st is "ok", "error", "ub" or "exhausted".
evaluate(rpn, c) ==
    LET RECURSIVE scan(_, _, _)
        scan(i, stk, cc) ==
            IF i > Len(rpn)
            THEN LET r == EvalReturn(stk)
                 IN  [st |-> IF r.err = "" THEN "ok" ELSE "error", err |-> r.err,
                      value |-> r.value, cells |-> cc]
            ELSE LET r == EvalToken(rpn[i], stk, cc)
                 IN  IF r.st = "ok" THEN scan(i + 1, r.stk, r.cells)
                     ELSE [st |-> r.st, err |-> r.err, value |-> Empty, cells |-> r.cells]
    IN  IF EvalEntry(rpn) # ""
        THEN [st |-> "error", err |-> EvalEntry(rpn), value |-> Empty, cells |-> c]
        ELSE scan(1, <<>>, c)

EvaluateBegin ==
    /\ phase = "postfix"
    /\ IF EvalEntry(rpnExpression) # ""
       THEN /\ phase' = "done"
            /\ outcome' = Failed("evaluate", EvalEntry(rpnExpression))
       ELSE /\ phase' = "evaluating"
            /\ outcome' = NoOutcome
    /\ pos' = 1
    /\ operandStack' = <<>>
    /\ UNCHANGED <<cells, infixTokens, outputQueue, operatorStack, rpnExpression,
                   undefined, expected>>

\* RPNEvaluator::evaluate: one iteration of the loop over rpnExpression.
EvaluateStep ==
    /\ phase = "evaluating"
    /\ pos <= Len(rpnExpression)
    /\ LET r == EvalToken(rpnExpression[pos], operandStack, cells)
       IN  /\ operandStack' = r.stk
           /\ cells' = r.cells
           /\ CASE r.st = "ok" ->
                    /\ pos' = pos + 1
                    /\ UNCHANGED <<phase, outcome, undefined>>
                [] r.st = "error" ->
                    /\ phase' = "done"
                    /\ outcome' = Failed("evaluate", r.err)
                    /\ UNCHANGED <<pos, undefined>>
                [] r.st = "exhausted" ->
                    /\ phase' = "done"
                    /\ outcome' = Exhausted
                    /\ UNCHANGED <<pos, undefined>>
                [] r.st = "ub" ->
                    /\ undefined' = TRUE
                    /\ \E o \in UndefinedOutcomes :
                         /\ outcome' = o
                         /\ phase' = IF o.status = "crash" THEN "crashed" ELSE "done"
                    /\ UNCHANGED pos
    /\ UNCHANGED <<infixTokens, outputQueue, operatorStack, rpnExpression, expected>>

\* RPNEvaluator::evaluate: the check after the scan, and the return.
EvaluateEnd ==
    /\ phase = "evaluating"
    /\ pos > Len(rpnExpression)
    /\ LET r == EvalReturn(operandStack)
       IN  outcome' = IF r.err = "" THEN Returned("evaluate", r.value)
                      ELSE Failed("evaluate", r.err)
    /\ phase' = "done"
    /\ UNCHANGED <<cells, infixTokens, pos, outputQueue, operatorStack, rpnExpression,
                   operandStack, undefined, expected>>

\* Continue with the value stack of the call kept for the next one.
ContinueKeepingValueStack ==
    /\ phase = "done"
    /\ phase' = "idle"
    /\ infixTokens' = <<>>
    /\ pos' = 1
    /\ outputQueue' = <<>>
    /\ operatorStack' = <<>>
    /\ rpnExpression' = <<>>
    /\ outcome' = NoOutcome
    /\ undefined' = FALSE
    /\ expected' = NoOutcome
    /\ UNCHANGED <<cells, operandStack>>

\* The call has returned or thrown: its stacks and queue are discarded and the
\* caller goes on to the next expression.
Continue ==
    /\ phase = "done"
    /\ phase' = "idle"
    /\ infixTokens' = <<>>
    /\ pos' = 1
    /\ outputQueue' = <<>>
    /\ operatorStack' = <<>>
    /\ rpnExpression' = <<>>
    /\ operandStack' = <<>>
    /\ outcome' = NoOutcome
    /\ undefined' = FALSE
    /\ expected' = NoOutcome
    /\ UNCHANGED cells

Run == ParseStep \/ ParseEnd \/ EvaluateBegin \/ EvaluateStep \/ EvaluateEnd \/ Continue

-----------------------------------------------------------------------------
(* Inputs. *)

\* All sequences over S of length at most n.
RECURSIVE SeqsUpTo(_, _)
SeqsUpTo(S, n) ==
    IF n = 0 THEN {<<>>}
    ELSE LET shorter == SeqsUpTo(S, n - 1)
         IN  shorter \cup {Append(q, t) : q \in shorter, t \in S}

Plus == OperatorTok("Addition")
Assign == OperatorTok("Assignment")
MaxFn == FunctionTok("Max")
X == VariableTok("x")
One == IntegerTok(1)

\* The tokens of the arbitrary sequences.
Alphabet == {One, X, Plus, Assign, MaxFn, LeftParenthesis, RightParenthesis, ArgumentSeparator}

AnySequences == SeqsUpTo(Alphabet, MaxLen)

AllOperations == {OperatorTok(o) : o \in Operators} \cup {FunctionTok(f) : f \in Functions}

\* Every operator and function of the catalog after too few operands.
UnderflowSequences ==
    {<<t>> : t \in AllOperations}
    \cup {<<a, t>> : a \in {One, X}, t \in {u \in AllOperations : number_of_args(u) = 2}}

PostfixInputs == AnySequences \cup UnderflowSequences \cup {<<One, IntegerTok(2), Plus, IntegerTok(3)>>}

\* The guard comes first so that the inputs are enumerated in idle states only.
SubmitAny == phase = "idle" /\ \E q \in AnySequences : Submit(q, NoOutcome)
SubmitAnyPostfix == phase = "idle" /\ \E q \in PostfixInputs : SubmitPostfix(q)

Next == SubmitAny \/ SubmitAnyPostfix \/ Run

Spec == Init /\ [][Next]_vars

-----------------------------------------------------------------------------
(* Fully parenthesized expressions over Integer literals and + - * /, each  *)
(* with the value of its expression tree.                                   *)

Literals == {IntegerTok(i) : i \in 0 .. MaxLit}
ArithmeticOperators == {"Addition", "Subtraction", "Multiplication", "Division"}

\* The integer quotient q of l by r: l = q * r + m with m smaller than r in
\* magnitude and of the sign of l.
RefQuotient(l, r) ==
    CHOOSE q \in -AbsInt(l) .. AbsInt(l) :
        LET m == l - q * r
        IN  AbsInt(m) < AbsInt(r) /\ (m = 0 \/ (m < 0) = (l < 0))

\* Value of the tree node op(l, r); ok = FALSE when a division by zero occurs in it.
RefApply(op, l, r) ==
    IF ~l.ok \/ ~r.ok \/ (op = "Division" /\ r.v = 0) THEN [ok |-> FALSE, v |-> 0]
    ELSE [ok |-> TRUE,
          v |-> CASE op = "Addition" -> l.v + r.v
                  [] op = "Subtraction" -> l.v - r.v
                  [] op = "Multiplication" -> l.v * r.v
                  [] op = "Division" -> RefQuotient(l.v, r.v)]

\* ( l op r )
Parenthesized(op, l, r) ==
    [tokens |-> <<LeftParenthesis>> \o l.tokens \o <<OperatorTok(op)>> \o r.tokens
                \o <<RightParenthesis>>,
     ref |-> RefApply(op, l.ref, r.ref)]

\* levels[k + 1] is the set of the expressions with exactly k operators;
\* the levels are extended up to n operators.
RECURSIVE ParenthesizedLevels(_, _)
ParenthesizedLevels(levels, n) ==
    IF Len(levels) > n THEN levels
    ELSE LET k == Len(levels)
             next == UNION {{Parenthesized(op, l, r) : l \in levels[i + 1], r \in levels[k - i],
                                                       op \in ArithmeticOperators}
                            : i \in 0 .. k - 1}
         IN  ParenthesizedLevels(Append(levels, next), n)

\* The expressions with fewer than MaxOps operators, by number of operators.
Subexpressions ==
    ParenthesizedLevels(
        <<{[tokens |-> <<l>>, ref |-> [ok |-> TRUE, v |-> l.val]] : l \in Literals}>>,
        MaxOps - 1)

\* What the reference evaluation expects of parse then evaluate.
RefOutcome(ref) ==
    IF ref.ok THEN Returned("evaluate", IntegerTok(ref.v))
    ELSE Failed("evaluate", DivisionByZero)

\* An expression with at most MaxOps operators is submitted: one of the
\* subexpressions, or two of them with MaxOps - 1 operators together under one
\* more operator.
SubmitParenthesized ==
    /\ phase = "idle"
    /\ \/ \E k \in 1 .. MaxOps : \E x \in Subexpressions[k] :
            Submit(x.tokens, RefOutcome(x.ref))
       \/ \E i \in 0 .. MaxOps - 1, op \in ArithmeticOperators :
            \E l \in Subexpressions[i + 1], r \in Subexpressions[MaxOps - i] :
               LET x == Parenthesized(op, l, r)
               IN  Submit(x.tokens, RefOutcome(x.ref))

NextParenthesized == SubmitParenthesized \/ Run

SpecParenthesized == Init /\ [][NextParenthesized]_vars

-----------------------------------------------------------------------------
(* Infix expressions of operators and Integer literals: two terms under a   *)
(* binary operator, and three literals under two binary operators, bare or  *)
(* with one pair of parentheses.                                            *)

Subtraction == OperatorTok("Subtraction")
Multiplication == OperatorTok("Multiplication")
Power == OperatorTok("Power")
Factorial == OperatorTok("Factorial")

BinaryTokens == {OperatorTok(o) : o \in BinaryOperators}

\* A literal alone, after a prefix operator, or before the postfix operator.
Terms ==
    {<<a>> : a \in Literals}
    \cup {<<OperatorTok(u), a>> : u \in UnaryOperators, a \in Literals}
    \cup {<<a, Factorial>> : a \in Literals}

\* a o1 b o2 c, ( a o1 b ) o2 c, a o1 ( b o2 c )
Groupings(a, o1, b, o2, c) ==
    {<<a, o1, b, o2, c>>,
     <<LeftParenthesis, a, o1, b, RightParenthesis, o2, c>>,
     <<a, o1, LeftParenthesis, b, o2, c, RightParenthesis>>}

\* 2 + 3 * 4, ( 2 + 3 ) * 4, 2 ^ 3 !
OperatorExamples ==
    {<<IntegerTok(2), Plus, IntegerTok(3), Multiplication, IntegerTok(4)>>,
     <<LeftParenthesis, IntegerTok(2), Plus, IntegerTok(3), RightParenthesis,
       Multiplication, IntegerTok(4)>>,
     <<IntegerTok(2), Power, IntegerTok(3), Factorial>>}

SubmitOperators ==
    /\ phase = "idle"
    /\ \/ \E s \in Terms, t \in Terms, o \in BinaryTokens : Submit(s \o <<o>> \o t, NoOutcome)
       \/ \E a \in Literals, b \in Literals, c \in Literals, o1 \in BinaryTokens,
             o2 \in BinaryTokens :
            \E q \in Groupings(a, o1, b, o2, c) : Submit(q, NoOutcome)
       \/ \E q \in OperatorExamples : Submit(q, NoOutcome)

NextOperators == SubmitOperators \/ Run

SpecOperators == Init /\ [][NextOperators]_vars

-----------------------------------------------------------------------------
(* Function calls f ( A ) and g ( A , B ), alone, as an argument of another *)
(* call and as an operand of a binary operator, each with the postfix of    *)
(* its expression tree: the arguments' postfix, then the function.          *)

Abs == FunctionTok("Abs")
Pow == FunctionTok("Pow")

Literal(a) == [tokens |-> <<a>>, postfix |-> <<a>>]

\* p o q for two operands p and q, each a literal or a call.
Binary(o, p, q) ==
    [tokens |-> p.tokens \o <<o>> \o q.tokens,
     postfix |-> p.postfix \o q.postfix \o <<o>>]

Call1(f, A) ==
    [tokens |-> <<f, LeftParenthesis>> \o A.tokens \o <<RightParenthesis>>,
     postfix |-> A.postfix \o <<f>>]

Call2(g, A, B) ==
    [tokens |-> <<g, LeftParenthesis>> \o A.tokens \o <<ArgumentSeparator>> \o B.tokens
                \o <<RightParenthesis>>,
     postfix |-> A.postfix \o B.postfix \o <<g>>]

LiteralExpressions == {Literal(a) : a \in Literals}

\* An argument without a call: a literal, or a + b.
SimpleArguments ==
    LiteralExpressions
    \cup {Binary(Plus, a, b) : a \in LiteralExpressions, b \in LiteralExpressions}

SimpleCalls ==
    {Call1(Abs, A) : A \in SimpleArguments}
    \cup {Call2(g, A, B) : g \in {MaxFn, Pow}, A \in SimpleArguments, B \in SimpleArguments}

\* A call c inside an enclosing call or expression with the literal a.
Enclosing(c, a) ==
    {Call1(Abs, c), Call2(MaxFn, c, a), Call2(Pow, a, c),
     Call2(MaxFn, Binary(Plus, a, c), a), Call2(MaxFn, a, Binary(Multiplication, c, a)),
     Binary(Plus, a, c), Binary(Multiplication, c, a), Binary(Power, a, c)}

\* max ( 3 , 5 ) and pow ( 2 , 10 )
CallExamples ==
    {Call2(MaxFn, Literal(IntegerTok(3)), Literal(IntegerTok(5))),
     Call2(Pow, Literal(IntegerTok(2)), Literal(IntegerTok(10)))}

SubmitCall ==
    /\ phase = "idle"
    /\ \/ \E c \in SimpleCalls \cup CallExamples :
            Submit(c.tokens, Returned("parse", c.postfix))
       \/ \E c \in SimpleCalls, a \in LiteralExpressions : \E x \in Enclosing(c, a) :
            Submit(x.tokens, Returned("parse", x.postfix))

NextCalls == SubmitCall \/ Run

SpecCalls == Init /\ [][NextCalls]_vars

-----------------------------------------------------------------------------
(* Assignments and two-operand arithmetic over Integer, Real and Boolean    *)
(* literals and the Variables x and y.                                      *)

Y == VariableTok("y")

\* The guard comes first so that the inputs are enumerated in idle states only.
SubmitValues ==
    /\ phase = "idle"
    /\ LET numbers == {IntegerTok(i) : i \in 0 .. MaxLit}
                      \cup {RealTok(0, 1), RealTok(1, 2), RealTok(5, 2)}
           values == numbers \cup {BooleanTok(TRUE), BooleanTok(FALSE)}
           operands == values \cup {X, Y}
           booleans == {BooleanTok(TRUE), BooleanTok(FALSE)}
           arithmetic == {"Addition", "Subtraction", "Multiplication", "Division", "Modulus",
                          "Power"}
           logical == {"And", "Or", "Nand", "Nor", "Xor", "Xnor"}
       IN  \/ \E p \in operands, q \in operands : Submit(<<p, Assign, q>>, NoOutcome)
           \/ \E v \in values : Submit(<<X, Assign, Y, Assign, v>>, NoOutcome)
           \/ \E a \in values \cup {X}, b \in values, o \in arithmetic :
                 Submit(<<a, OperatorTok(o), b>>, NoOutcome)
           \/ \E a \in values, b \in values, f \in {"Max", "Min"} :
                 Submit(<<FunctionTok(f), LeftParenthesis, a, ArgumentSeparator, b,
                          RightParenthesis>>, NoOutcome)
           \/ Submit(<<IntegerTok(4), OperatorTok("Division"), IntegerTok(2)>>, NoOutcome)
           \/ \E a \in booleans, b \in booleans, o \in logical :
                 \/ Submit(<<a, OperatorTok(o), b>>, NoOutcome)
                 \/ Submit(<<OperatorTok("Not"), LeftParenthesis, a, OperatorTok(o), b,
                             RightParenthesis>>, NoOutcome)
           \/ \E v \in operands \cup {IntegerTok(i) : i \in -MaxLit .. MaxFactorial} :
                 SubmitPostfix(<<v, Factorial>>)
           \/ \E b \in -MaxLit .. MaxLit, e \in 1 .. MaxLit :
                 SubmitPostfix(<<IntegerTok(b), IntegerTok(-e), Power>>)
           \/ \E v \in operands, o \in {"Not", "Negation"} :
                 Submit(<<OperatorTok(o), v>>, NoOutcome)
           \/ \E n \in 0 .. MaxLit :
                 Submit(<<FunctionTok("Result"), LeftParenthesis, IntegerTok(n),
                          RightParenthesis>>, NoOutcome)
           \/ \E q \in {<<PlainToken>>, <<One, Plus, PlainToken>>,
                         <<LeftParenthesis, PlainToken, RightParenthesis>>} :
                 Submit(q, NoOutcome)
           \/ \E q \in {<<PlainToken>>, <<One, LeftParenthesis>>, <<One, RightParenthesis>>,
                         <<One, ArgumentSeparator, One>>, <<One, PlainToken, One, Plus>>} :
                 SubmitPostfix(q)

NextValues == SubmitValues \/ Run

SpecValues == Init /\ [][NextValues]_vars

-----------------------------------------------------------------------------
(* The catalog applied: every function on one or two numbers, the           *)
(* comparisons of two Booleans, powers with negative and wide exponents,    *)
(* and every operator on two operands.                                      *)

SubmitCatalog ==
    /\ phase = "idle"
    /\ LET integers == {IntegerTok(i) : i \in -MaxLit .. MaxLit}
           reals == {RealTok(0, 1), RealTok(1, 2), RealTok(-1, 1)}
           numbers == integers \cup reals \cup {IntegerTok(4)}
           booleans == {BooleanTok(TRUE), BooleanTok(FALSE)}
           wide == {WideIntegerTok(1, l) : l \in 0 .. 1}
           comparisons == {"Equality", "Inequality", "Greater", "GreaterEqual", "Less", "LessEqual"}
       IN  \/ \E a \in numbers, f \in OneArgFunctions :
                 Submit(<<FunctionTok(f), LeftParenthesis, a, RightParenthesis>>, NoOutcome)
           \/ \E a \in numbers, b \in numbers, g \in TwoArgFunctions :
                 Submit(<<FunctionTok(g), LeftParenthesis, a, ArgumentSeparator, b,
                          RightParenthesis>>, NoOutcome)
           \/ \E a \in booleans, b \in booleans, o \in comparisons :
                 Submit(<<a, OperatorTok(o), b>>, NoOutcome)
           \/ \E b \in numbers, e \in numbers : Submit(<<b, Power, e>>, NoOutcome)
           \/ \E b \in integers, e \in wide :
                 \/ Submit(<<b, Power, e>>, NoOutcome)
                 \/ Submit(<<Pow, LeftParenthesis, b, ArgumentSeparator, e,
                             RightParenthesis>>, NoOutcome)
           \/ \E a \in integers \cup booleans \cup {X}, b \in integers \cup booleans,
                  o \in BinaryOperators : Submit(<<a, OperatorTok(o), b>>, NoOutcome)
           \/ \E a \in integers \cup booleans, u \in UnaryOperators :
                 Submit(<<OperatorTok(u), a>>, NoOutcome)
           \/ \E a \in integers : Submit(<<a, Factorial>>, NoOutcome)

NextCatalog == SubmitCatalog \/ Run

SpecCatalog == Init /\ [][NextCatalog]_vars

-----------------------------------------------------------------------------
(* Claims about RPNEvaluator::evaluate on arbitrary postfix input. *)

CurrentRpnToken == rpnExpression[pos]
is_Operation(t) == is_Operator(t) \/ is_Function(t)

\* C1: for every postfix sequence and every state of the Variable cells,
\* evaluate ends by returning one Operand or by raising a reported error and
\* never executes undefined behaviour (top() of an empty stack, use of the
\* result of a failed cast).
C1_EvaluateNeverUndefined ==
    /\ ~undefined
    /\ phase # "crashed"
    /\ (phase = "done" /\ outcome.stage = "evaluate") => outcome.status \in {"ok", "error"}

\* C2: when the evaluator reaches an Operator or Function token while the
\* value stack holds fewer entries than the token's arity, evaluate fails with
\* InsufficientOperands and has popped nothing.
C2_UnderflowIsInsufficientOperands ==
    [][(/\ phase = "evaluating"
        /\ pos <= Len(rpnExpression)
        /\ is_Operation(CurrentRpnToken)
        /\ Len(operandStack) < number_of_args(CurrentRpnToken))
       => (/\ phase' = "done"
           /\ outcome' = Failed("evaluate", InsufficientOperands)
           /\ operandStack' = operandStack)]_vars

\* C3: after a complete scan without error, evaluate returns a result only if
\* the value stack holds exactly one entry, which is the result; with more
\* than one entry it fails with TooManyOperands.
ScanCompleted ==
    /\ phase = "done"
    /\ outcome.stage = "evaluate"
    /\ ~undefined
    /\ rpnExpression # <<>>
    /\ pos > Len(rpnExpression)

C3_ResultIsTheSingleEntry ==
    /\ ScanCompleted =>
          /\ Len(operandStack) >= 1
          /\ Len(operandStack) = 1 => outcome = Returned("evaluate", operandStack[1])
          /\ Len(operandStack) > 1 => outcome = Failed("evaluate", TooManyOperands)
    /\ (phase = "done" /\ outcome.stage = "evaluate" /\ outcome.status = "ok" /\ ~undefined)
          => (ScanCompleted /\ Len(operandStack) = 1)

\* Raw postfix 1 2 + 3 has left 3 and 3 on the stack and failed.
C3_Witness ==
    /\ ScanCompleted
    /\ rpnExpression = <<One, IntegerTok(2), Plus, IntegerTok(3)>>
    /\ operandStack = <<IntegerTok(3), IntegerTok(3)>>
    /\ outcome = Failed("evaluate", TooManyOperands)

\* C4: evaluate called with an empty postfix sequence fails with
\* InsufficientOperands and changes no Variable cell.
C4_EmptyPostfixInsufficientOperands ==
    [][(phase = "postfix" /\ rpnExpression = <<>>)
       => (/\ phase' = "done"
           /\ outcome' = Failed("evaluate", InsufficientOperands)
           /\ cells' = cells)]_vars

\* The empty sequence has been evaluated in a session whose Variable x holds a value.
C4_Witness ==
    /\ phase = "done"
    /\ rpnExpression = <<>>
    /\ outcome = Failed("evaluate", InsufficientOperands)
    /\ cells["x"] = One

-----------------------------------------------------------------------------
(* Claims about Parser::parse followed by RPNEvaluator::evaluate. *)

\* C5: for every fully parenthesized infix expression over Integer literals
\* and + - * /, parse followed by evaluate ends with the value of the
\* reference evaluation of the expression tree (an Integer, or the
\* DivisionByZero failure where the tree divides by zero).
C5_ParenthesizedMatchesReference ==
    (phase = "done" /\ expected # NoOutcome) => outcome = expected

\* ( ( 1 - 2 ) / 2 ) has been parsed to 1 2 - 2 / and evaluated to 0.
C5_Witness ==
    /\ phase = "done"
    /\ infixTokens = <<LeftParenthesis, LeftParenthesis, One, OperatorTok("Subtraction"),
                       IntegerTok(2), RightParenthesis, OperatorTok("Division"),
                       IntegerTok(2), RightParenthesis>>
    /\ rpnExpression = <<One, IntegerTok(2), OperatorTok("Subtraction"), IntegerTok(2),
                         OperatorTok("Division")>>
    /\ expected = Returned("evaluate", IntegerTok(0))
    /\ outcome = expected

\* C6: when the incoming operator and the operator on top of the stack have
\* equal precedence, the parser pops the top to the output before pushing the
\* incoming one exactly when the top is left-associative; a - b - c parses to
\* a b - c - and evaluates to (a - b) - c, a ^ b ^ c parses to a b c ^ ^ and
\* evaluates to a ^ (b ^ c).
EqualPrecedenceStep ==
    /\ phase = "parsing"
    /\ pos <= Len(infixTokens)
    /\ is_Operator(infixTokens[pos])
    /\ operatorStack # <<>>
    /\ is_Operator(Top(operatorStack))
    /\ precedence(Top(operatorStack)) = precedence(infixTokens[pos])

TopPoppedFirst ==
    /\ Len(outputQueue') > Len(outputQueue)
    /\ outputQueue'[Len(outputQueue) + 1] = Top(operatorStack)
    /\ Top(operatorStack') = infixTokens[pos]

TopKept ==
    /\ outputQueue' = outputQueue
    /\ operatorStack' = Append(operatorStack, infixTokens[pos])

RECURSIVE RefPower(_, _)
RefPower(b, e) == IF e = 0 THEN 1 ELSE b * RefPower(b, e - 1)

IsChain(o1, o2) ==
    /\ phase = "done"
    /\ Len(infixTokens) = 5
    /\ is_Integer(infixTokens[1]) /\ is_Integer(infixTokens[3]) /\ is_Integer(infixTokens[5])
    /\ infixTokens[2] = o1
    /\ infixTokens[4] = o2

ChainsAssociate ==
    LET a == infixTokens[1]
        b == infixTokens[3]
        c == infixTokens[5]
    IN  /\ IsChain(Subtraction, Subtraction) =>
              /\ rpnExpression = <<a, b, Subtraction, c, Subtraction>>
              /\ outcome = Returned("evaluate", IntegerTok((a.val - b.val) - c.val))
        /\ IsChain(Power, Power) =>
              /\ rpnExpression = <<a, b, c, Power, Power>>
              /\ outcome.status # "exhausted" =>
                    outcome = Returned("evaluate",
                                       IntegerTok(RefPower(a.val, RefPower(b.val, c.val))))

C6_EqualPrecedencePopsLeftAssociative ==
    /\ [][EqualPrecedenceStep =>
             IF Top(operatorStack).name \in LAssocOperators THEN TopPoppedFirst ELSE TopKept]_vars
    /\ []ChainsAssociate

\* 2 ^ 1 ^ 2 has been parsed to 2 1 2 ^ ^ and evaluated to 2 ^ (1 ^ 2) = 2.
C6_Witness ==
    /\ phase = "done"
    /\ infixTokens = <<IntegerTok(2), Power, One, Power, IntegerTok(2)>>
    /\ rpnExpression = <<IntegerTok(2), One, IntegerTok(2), Power, Power>>
    /\ outcome = Returned("evaluate", IntegerTok(2))

\* C7: in a o1 b o2 c the operator of higher precedence is applied first
\* (a b c o2 o1 when o2 is higher, a b o1 c o2 when o1 is higher), and
\* parentheses decide whatever the precedences: ( a o1 b ) o2 c parses to
\* a b o1 c o2 and a o1 ( b o2 c ) to a b c o2 o1; 2 + 3 * 4 parses to
\* 2 3 4 * + and evaluates to 14, ( 2 + 3 ) * 4 parses to 2 3 + 4 * and
\* evaluates to 20.
IsBinary(t) == is_Operator(t) /\ t.name \in BinaryOperators

\* The postfix of a o1 b o2 c with o1 applied first, and with o2 applied first.
FirstThenSecond(a, o1, b, o2, c) == <<a, b, o1, c, o2>>
SecondThenFirst(a, o1, b, o2, c) == <<a, b, c, o2, o1>>

BareChain ==
    /\ Len(infixTokens) = 5
    /\ is_Integer(infixTokens[1]) /\ IsBinary(infixTokens[2]) /\ is_Integer(infixTokens[3])
    /\ IsBinary(infixTokens[4]) /\ is_Integer(infixTokens[5])

LeftGrouped ==
    /\ Len(infixTokens) = 7
    /\ infixTokens[1] = LeftParenthesis /\ infixTokens[5] = RightParenthesis
    /\ is_Integer(infixTokens[2]) /\ IsBinary(infixTokens[3]) /\ is_Integer(infixTokens[4])
    /\ IsBinary(infixTokens[6]) /\ is_Integer(infixTokens[7])

RightGrouped ==
    /\ Len(infixTokens) = 7
    /\ infixTokens[3] = LeftParenthesis /\ infixTokens[7] = RightParenthesis
    /\ is_Integer(infixTokens[1]) /\ IsBinary(infixTokens[2]) /\ is_Integer(infixTokens[4])
    /\ IsBinary(infixTokens[5]) /\ is_Integer(infixTokens[6])

C7_PrecedenceAndParentheses ==
    phase = "done" =>
        /\ BareChain =>
              LET a == infixTokens[1]
                  o1 == infixTokens[2]
                  b == infixTokens[3]
                  o2 == infixTokens[4]
                  c == infixTokens[5]
              IN  /\ precedence(o1) < precedence(o2)
                        => rpnExpression = SecondThenFirst(a, o1, b, o2, c)
                  /\ precedence(o1) > precedence(o2)
                        => rpnExpression = FirstThenSecond(a, o1, b, o2, c)
        /\ LeftGrouped =>
              rpnExpression = FirstThenSecond(infixTokens[2], infixTokens[3], infixTokens[4],
                                              infixTokens[6], infixTokens[7])
        /\ RightGrouped =>
              rpnExpression = SecondThenFirst(infixTokens[1], infixTokens[2], infixTokens[4],
                                              infixTokens[5], infixTokens[6])
        /\ infixTokens = <<IntegerTok(2), Plus, IntegerTok(3), Multiplication, IntegerTok(4)>>
              => /\ rpnExpression = <<IntegerTok(2), IntegerTok(3), IntegerTok(4),
                                      Multiplication, Plus>>
                 /\ outcome = Returned("evaluate", IntegerTok(14))
        /\ infixTokens = <<LeftParenthesis, IntegerTok(2), Plus, IntegerTok(3),
                           RightParenthesis, Multiplication, IntegerTok(4)>>
              => /\ rpnExpression = <<IntegerTok(2), IntegerTok(3), Plus, IntegerTok(4),
                                      Multiplication>>
                 /\ outcome = Returned("evaluate", IntegerTok(20))

\* ( 2 + 3 ) * 4 has been parsed and evaluated to 20.
C7_Witness ==
    /\ phase = "done"
    /\ infixTokens = <<LeftParenthesis, IntegerTok(2), Plus, IntegerTok(3),
                       RightParenthesis, Multiplication, IntegerTok(4)>>
    /\ outcome = Returned("evaluate", IntegerTok(20))

\* C8: the precedence levels of the catalog are ordered Assignment <
\* LogicalOr family < LogicalAnd family < Equality family < Relational <
\* Additive < Multiplicative < Unary < Power < Postfix, the Factorial operator
\* has the Postfix level, and 2 ^ 3 ! parses to 2 3 ! ^.
LevelOf(name) ==
    CASE name = "Assignment" -> ASSIGNMENT
      [] name \in {"Or", "Xor", "Nor", "Xnor"} -> LOGOR
      [] name \in {"And", "Nand"} -> LOGAND
      [] name \in {"Equality", "Inequality"} -> EQUALITY
      [] name \in {"Greater", "GreaterEqual", "Less", "LessEqual"} -> RELATIONAL
      [] name \in {"Addition", "Subtraction"} -> ADDITIVE
      [] name \in {"Multiplication", "Division", "Modulus"} -> MULTIPLICATIVE
      [] name \in {"Identity", "Negation", "Not"} -> UNARY
      [] name = "Power" -> POWER
      [] name = "Factorial" -> POSTFIX

LevelsOrdered ==
    /\ ASSIGNMENT < LOGOR /\ LOGOR < LOGAND /\ LOGAND < EQUALITY /\ EQUALITY < RELATIONAL
    /\ RELATIONAL < ADDITIVE /\ ADDITIVE < MULTIPLICATIVE /\ MULTIPLICATIVE < UNARY
    /\ UNARY < POWER /\ POWER < POSTFIX

C8_FactorialBindsTighterThanPower ==
    /\ LevelsOrdered
    /\ \A i \in 1 .. Len(operatorStack) :
          is_Operator(operatorStack[i]) =>
              precedence(operatorStack[i]) = LevelOf(operatorStack[i].name)
    /\ (phase = "done" /\ infixTokens = <<IntegerTok(2), Power, IntegerTok(3), Factorial>>)
          => rpnExpression = <<IntegerTok(2), IntegerTok(3), Factorial, Power>>

\* 2 ^ 3 ! has been parsed to 2 3 ^ ! and evaluated to (2 ^ 3) ! = 40320.
C8_Witness ==
    /\ phase = "done"
    /\ infixTokens = <<IntegerTok(2), Power, IntegerTok(3), Factorial>>
    /\ rpnExpression = <<IntegerTok(2), IntegerTok(3), Power, Factorial>>
    /\ outcome = Returned("evaluate", IntegerTok(40320))

-----------------------------------------------------------------------------
(* Claims about Parser::parse on arbitrary infix sequences. *)

\* LeftParenthesis tokens less RightParenthesis tokens among the first k tokens.
Depth(seq, k) ==
    Cardinality({i \in 1 .. k : seq[i] = LeftParenthesis})
    - Cardinality({i \in 1 .. k : seq[i] = RightParenthesis})

Balanced(seq) ==
    /\ \A k \in 1 .. Len(seq) : Depth(seq, k) >= 0
    /\ Depth(seq, Len(seq)) = 0

LeftParenthesesOn(stk) == {i \in 1 .. Len(stk) : stk[i] = LeftParenthesis}

\* parse has returned its postfix sequence for infixTokens.
ParseReturned ==
    \/ phase \in {"postfix", "evaluating", "crashed"}
    \/ phase = "done" /\ outcome.stage = "evaluate"

ParseFailed == phase = "done" /\ outcome.stage = "parse"

\* C9 as stated: for every infix sequence whose parentheses are unbalanced,
\* parse fails with MismatchedParenthesis.
C9_UnbalancedFailsWithMismatchedParenthesis ==
    (phase \notin {"idle", "parsing"} /\ ~Balanced(infixTokens))
        => outcome = Failed("parse", MismatchedParenthesis)

\* C9, amended: parse never returns a postfix sequence for an infix sequence
\* whose parentheses are unbalanced; a RightParenthesis with no
\* LeftParenthesis on the operator stack fails at that token with
\* MismatchedParenthesis, a LeftParenthesis on the stack at the end of input
\* fails at the end with MismatchedParenthesis, and these are the unmatched
\* parentheses of the sequence; the only other failure is at an earlier
\* token, with that token's error.
ParenthesesTracked ==
    /\ ParseReturned => Balanced(infixTokens)
    /\ phase = "parsing" =>
          /\ \A k \in 1 .. pos - 1 : Depth(infixTokens, k) >= 0
          /\ Cardinality(LeftParenthesesOn(operatorStack)) = Depth(infixTokens, pos - 1)
    /\ ParseFailed =>
          IF pos > Len(infixTokens)
          THEN /\ Depth(infixTokens, Len(infixTokens)) > 0
               /\ outcome.err = MismatchedParenthesis
          ELSE IF infixTokens[pos] = RightParenthesis
          THEN /\ Depth(infixTokens, pos) < 0
               /\ outcome.err = MismatchedParenthesis
          ELSE IF infixTokens[pos] = ArgumentSeparator
          THEN outcome.err = MisplacedSeparator
          ELSE outcome.err = UnknownTokenParse

UnmatchedRightParenthesis ==
    /\ phase = "parsing"
    /\ pos <= Len(infixTokens)
    /\ infixTokens[pos] = RightParenthesis
    /\ LeftParenthesesOn(operatorStack) = {}

UnmatchedLeftParenthesis ==
    /\ phase = "parsing"
    /\ pos > Len(infixTokens)
    /\ LeftParenthesesOn(operatorStack) # {}

C9_UnbalancedNeverReturns ==
    /\ []ParenthesesTracked
    /\ [][(UnmatchedRightParenthesis \/ UnmatchedLeftParenthesis)
             => (/\ phase' = "done"
                 /\ outcome' = Failed("parse", MismatchedParenthesis)
                 /\ pos' = pos)]_vars

\* 1 + 1 ) has failed at its RightParenthesis.
C9_Witness ==
    /\ ParseFailed
    /\ infixTokens = <<One, Plus, One, RightParenthesis>>
    /\ pos = 4
    /\ outcome = Failed("parse", MismatchedParenthesis)

\* C10: on an ArgumentSeparator the parser pops the stack entries above the
\* topmost LeftParenthesis to the output, top first, and leaves that
\* LeftParenthesis on top of the stack; with no LeftParenthesis on the stack
\* parse fails with MismatchedParenthesis/MisplacedSeparator.
SeparatorStep ==
    /\ phase = "parsing"
    /\ pos <= Len(infixTokens)
    /\ infixTokens[pos] = ArgumentSeparator

TopmostLeftParenthesis ==
    CHOOSE i \in LeftParenthesesOn(operatorStack) :
        \A j \in LeftParenthesesOn(operatorStack) : j <= i

\* The stack entries above index i, top first.
AboveTopFirst(stk, i) == [k \in 1 .. Len(stk) - i |-> stk[Len(stk) + 1 - k]]

C10_SeparatorPopsToLeftParenthesis ==
    [][SeparatorStep =>
          IF LeftParenthesesOn(operatorStack) # {}
          THEN /\ operatorStack' = SubSeq(operatorStack, 1, TopmostLeftParenthesis)
               /\ Top(operatorStack') = LeftParenthesis
               /\ outputQueue' = outputQueue \o AboveTopFirst(operatorStack, TopmostLeftParenthesis)
               /\ phase' = "parsing"
               /\ pos' = pos + 1
          ELSE /\ phase' = "done"
               /\ outcome' = Failed("parse", MisplacedSeparator)]_vars

\* In ( 1 + , the separator has popped + to the output and left the LeftParenthesis.
C10_Witness ==
    /\ phase = "parsing"
    /\ infixTokens = <<LeftParenthesis, One, Plus, ArgumentSeparator>>
    /\ pos = 5
    /\ outputQueue = <<One, Plus>>
    /\ operatorStack = <<LeftParenthesis>>

-----------------------------------------------------------------------------
(* Claims about function calls. *)

\* C11: for a function call f ( arg1 , ... , argN ), alone or nested in other
\* calls and expressions, parse returns the postfix in which the Function
\* token comes immediately after the postfix of its last argument;
\* max ( 3 , 5 ) parses to 3 5 max and evaluates to 5, pow ( 2 , 10 ) parses
\* to 2 10 pow and evaluates to 1024.
CallSubmitted == phase # "idle" /\ expected.stage = "parse"

C11_FunctionFollowsItsArguments ==
    /\ (CallSubmitted /\ phase # "parsing") =>
          /\ ParseReturned
          /\ rpnExpression = expected.value
    /\ (CallSubmitted /\ phase = "done") =>
          /\ infixTokens = <<MaxFn, LeftParenthesis, IntegerTok(3), ArgumentSeparator,
                             IntegerTok(5), RightParenthesis>>
                => /\ rpnExpression = <<IntegerTok(3), IntegerTok(5), MaxFn>>
                   /\ outcome = Returned("evaluate", IntegerTok(5))
          /\ infixTokens = <<Pow, LeftParenthesis, IntegerTok(2), ArgumentSeparator,
                             IntegerTok(10), RightParenthesis>>
                => /\ rpnExpression = <<IntegerTok(2), IntegerTok(10), Pow>>
                   /\ outcome = Returned("evaluate", IntegerTok(1024))

\* max ( 1 + abs ( 2 ) , 1 ) has been parsed to 1 2 abs + 1 max and evaluated to 3.
C11_Witness ==
    /\ phase = "done"
    /\ infixTokens = <<MaxFn, LeftParenthesis, One, Plus, Abs, LeftParenthesis, IntegerTok(2),
                       RightParenthesis, ArgumentSeparator, One, RightParenthesis>>
    /\ rpnExpression = <<One, IntegerTok(2), Abs, Plus, One, MaxFn>>
    /\ outcome = Returned("evaluate", IntegerTok(3))

-----------------------------------------------------------------------------
(* Claims about Function tokens without their parentheses. *)

\* The LeftParenthesis at position i of seq is closed by a later RightParenthesis.
ClosedLater(seq, i) ==
    \E j \in i + 1 .. Len(seq) :
        /\ seq[j] = RightParenthesis
        /\ Depth(seq, j) = Depth(seq, i) - 1
        /\ \A k \in i .. j - 1 : Depth(seq, k) >= Depth(seq, i)

\* Some Function token of seq is not immediately followed by a LeftParenthesis
\* that is later closed.
FunctionWithoutParentheses(seq) ==
    \E i \in 1 .. Len(seq) :
        /\ is_Function(seq[i])
        /\ ~(/\ i < Len(seq)
             /\ seq[i + 1] = LeftParenthesis
             /\ ClosedLater(seq, i + 1))

\* The evaluation loop has just applied a Function token to the operand stack.
FunctionApplied ==
    /\ phase \in {"evaluating", "done"}
    /\ pos > 1
    /\ pos - 1 <= Len(rpnExpression)
    /\ is_Function(rpnExpression[pos - 1])

\* C12 as stated: for every infix sequence in which a Function token is not
\* immediately followed by a LeftParenthesis that is later closed (abs 3),
\* parse followed by evaluate neither applies the function nor returns a
\* result.
C12_FunctionNeedsParentheses ==
    (infixTokens # <<>> /\ FunctionWithoutParentheses(infixTokens) /\ ~undefined)
        => /\ ~FunctionApplied
           /\ ~(phase = "done" /\ outcome.stage = "evaluate" /\ outcome.status = "ok")

\* max 1 1 is parsed to 1 1 max and evaluated to 1.
C12_Witness ==
    /\ phase = "done"
    /\ infixTokens = <<MaxFn, One, One>>
    /\ rpnExpression = <<One, One, MaxFn>>
    /\ outcome = Returned("evaluate", One)
    /\ ~undefined

-----------------------------------------------------------------------------
(* Claims about Variables as operands. *)

\* The operands an operation of the given arity takes from the stack.
Consumed(stk, n) == {stk[i] : i \in (Len(stk) - n + 1) .. Len(stk)}

\* The stack with every Variable that holds a value replaced by that value.
Dereferenced(stk, c) ==
    [i \in 1 .. Len(stk) |->
        IF is_Variable(stk[i]) /\ c[stk[i].name] # Empty THEN c[stk[i].name] ELSE stk[i]]

\* The loop is about to apply an operator other than Assignment, or a
\* function, to operands that are all on the stack.
OperationStep ==
    /\ phase = "evaluating"
    /\ pos <= Len(rpnExpression)
    /\ is_Operation(CurrentRpnToken)
    /\ CurrentRpnToken # Assign
    /\ Len(operandStack) >= number_of_args(CurrentRpnToken)

\* C13 as stated: a Variable holding v behaves as v in every arithmetic,
\* comparison and logical operator and in every function: the step on operands
\* among which Variables hold values ends as the same step on those values
\* does (after x := 1, x + 1 yields 2).
C13_VariableBehavesAsItsValue ==
    [][(/\ OperationStep
        /\ \E t \in Consumed(operandStack, number_of_args(CurrentRpnToken)) : is_Variable(t)
        /\ \A t \in Consumed(operandStack, number_of_args(CurrentRpnToken)) :
              is_Variable(t) => cells[t.name] # Empty)
       => LET r == EvalToken(CurrentRpnToken, Dereferenced(operandStack, cells), cells)
          IN  /\ ~undefined'
              /\ r.st = "ok" => /\ phase' = "evaluating"
                                /\ Len(operandStack') = Len(r.stk)
                                /\ Top(operandStack') = Top(r.stk)
              /\ r.st = "error" => outcome' = Failed("evaluate", r.err)]_vars

\* x + 1 evaluated while x holds 1 executes undefined behaviour.
C13_Witness ==
    /\ cells["x"] = One
    /\ rpnExpression = <<X, One, Plus>>
    /\ pos = 3
    /\ undefined

\* The operands the current operation reads the value of: all it takes from
\* the stack, less the left operand of an Assignment.
OperandsRead ==
    IF CurrentRpnToken = Assign THEN {Top(operandStack)}
    ELSE Consumed(operandStack, number_of_args(CurrentRpnToken))

UninitializedVariable == {VariableNotInitialized, VariableNotInitializedNot}

\* C14 as stated: when an empty Variable is consumed by any operator or
\* function other than as the left operand of Assignment, evaluate fails with
\* UninitializedVariable (y + 1, -y, not y, y == 1).
C14_EmptyVariableIsUninitialized ==
    [][(/\ phase = "evaluating"
        /\ pos <= Len(rpnExpression)
        /\ is_Operation(CurrentRpnToken)
        /\ Len(operandStack) >= number_of_args(CurrentRpnToken)
        /\ \E t \in OperandsRead : is_Variable(t) /\ cells[t.name] = Empty)
       => /\ ~undefined'
          /\ phase' = "done"
          /\ outcome'.stage = "evaluate"
          /\ outcome'.status = "error"
          /\ outcome'.err \in UninitializedVariable]_vars

\* x + 1 evaluated while x is empty executes undefined behaviour.
C14_Witness ==
    /\ cells["x"] = Empty
    /\ rpnExpression = <<X, One, Plus>>
    /\ pos = 3
    /\ undefined

-----------------------------------------------------------------------------
(* Claims about Assignment. *)

\* The loop is about to apply Assignment to the two operands on the stack.
AssignmentStep ==
    /\ phase = "evaluating"
    /\ pos <= Len(rpnExpression)
    /\ CurrentRpnToken = Assign
    /\ Len(operandStack) >= 2

LeftOperand == operandStack[Len(operandStack) - 1]
RightOperand == operandStack[Len(operandStack)]
is_Value(t) == is_Integer(t) \/ is_Real(t) \/ is_Boolean(t)

\* C15: an Assignment whose left operand is a Variable and whose right operand
\* is an Integer, Real or Boolean v sets that Variable's value to v, leaves
\* every other Variable unchanged and pushes the Variable itself, whether or
\* not the Variable held a value before; v := a alone returns the Variable.
C15_AssignmentStoresTheValue ==
    /\ [][(AssignmentStep /\ is_Variable(LeftOperand) /\ is_Value(RightOperand))
          => /\ cells'[LeftOperand.name] = RightOperand
             /\ \A n \in Names \ {LeftOperand.name} : cells'[n] = cells[n]
             /\ operandStack' = Push(Pop(Pop(operandStack)), LeftOperand)
             /\ phase' = "evaluating"
             /\ pos' = pos + 1
             /\ ~undefined']_vars
    /\ [](\A v \in {X, Y} :
            (/\ phase = "done"
             /\ Len(infixTokens) = 3
             /\ infixTokens[1] = v
             /\ infixTokens[2] = Assign
             /\ is_Value(infixTokens[3]))
            => /\ outcome = Returned("evaluate", v)
               /\ cells[v.name] = infixTokens[3])

\* y := 2.5 has been evaluated while x held true and y held 1.
C15_Witness ==
    /\ phase = "evaluating"
    /\ rpnExpression = <<Y, RealTok(5, 2), Assign>>
    /\ pos = 4
    /\ operandStack = <<Y>>
    /\ cells = [x |-> BooleanTok(TRUE), y |-> RealTok(5, 2)]

\* C16 as stated: when the right operand of an Assignment is a Variable
\* holding v, the Assignment stores v: x := y := v ends with both Variables
\* holding v, and x := y after y := v ends with x holding v.
C16_AssignmentFromVariable ==
    /\ [][(/\ AssignmentStep
           /\ is_Variable(LeftOperand)
           /\ is_Variable(RightOperand)
           /\ cells[RightOperand.name] # Empty)
          => /\ cells'[LeftOperand.name] = cells[RightOperand.name]
             /\ phase' = "evaluating"]_vars
    /\ []((/\ phase = "done"
           /\ Len(infixTokens) = 5
           /\ SubSeq(infixTokens, 1, 4) = <<X, Assign, Y, Assign>>)
          => /\ cells["x"] = infixTokens[5]
             /\ cells["y"] = infixTokens[5])

\* x := y := 1 has stored 1 in y and failed at the second Assignment.
C16_Witness ==
    /\ phase = "done"
    /\ infixTokens = <<X, Assign, Y, Assign, One>>
    /\ rpnExpression = <<X, Y, One, Assign, Assign>>
    /\ cells = [x |-> Empty, y |-> One]
    /\ outcome = Failed("evaluate", UnsupportedAssignment)

\* C17: an Assignment whose left operand is not a Variable (postfix 1 2 :=)
\* fails with the assignment-to-non-variable error and changes no cell.
C17_AssignmentToNonVariableFails ==
    [][(AssignmentStep /\ ~is_Variable(LeftOperand))
       => /\ phase' = "done"
          /\ outcome' = Failed("evaluate", AssignmentToNonVariable)
          /\ cells' = cells
          /\ ~undefined']_vars

\* 1 := 2 has failed at the Assignment while x held 1.
C17_Witness ==
    /\ phase = "done"
    /\ rpnExpression = <<One, IntegerTok(2), Assign>>
    /\ pos = 3
    /\ cells = [x |-> One, y |-> Empty]
    /\ outcome = Failed("evaluate", AssignmentToNonVariable)

-----------------------------------------------------------------------------
(* Claims about the numeric operators. *)

TypedOperations ==
    {OperatorTok(o) : o \in {"Addition", "Subtraction", "Multiplication", "Division"}}
    \cup {FunctionTok("Max"), FunctionTok("Min")}

\* The loop is about to apply the given two-operand operation to two numbers.
NumericStep(operations) ==
    /\ phase = "evaluating"
    /\ pos <= Len(rpnExpression)
    /\ CurrentRpnToken \in operations
    /\ Len(operandStack) >= 2
    /\ is_Numeric(LeftOperand)
    /\ is_Numeric(RightOperand)

RightIsZero == RightOperand.val = 0

\* C18: Addition, Subtraction, Multiplication, Division, max and min of two
\* Integers push an Integer (4 / 2 is Integer 2), and of two numbers of which
\* at least one is a Real push a Real, whatever the operands' values.
C18_ResultTypeFollowsOperandTypes ==
    /\ [][(NumericStep(TypedOperations)
           /\ ~(CurrentRpnToken.name = "Division" /\ RightIsZero))
          => /\ phase' = "evaluating"
             /\ Len(operandStack') = Len(operandStack) - 1
             /\ IF is_Integer(LeftOperand) /\ is_Integer(RightOperand)
                THEN is_Integer(Top(operandStack'))
                ELSE is_Real(Top(operandStack'))]_vars
    /\ []((phase = "done"
           /\ infixTokens = <<IntegerTok(4), OperatorTok("Division"), IntegerTok(2)>>)
          => outcome = Returned("evaluate", IntegerTok(2)))

\* 1 + 2.5 has returned the Real 3.5.
C18_Witness ==
    /\ phase = "done"
    /\ infixTokens = <<One, Plus, RealTok(5, 2)>>
    /\ outcome = Returned("evaluate", RealTok(7, 2))

\* C19: Division with a right operand equal to zero fails with DivisionByZero
\* for Integer and Real operands in every combination, and pushes no result.
C19_DivisionByZeroFails ==
    [][(NumericStep({OperatorTok("Division")}) /\ RightIsZero)
       => /\ phase' = "done"
          /\ outcome' = Failed("evaluate", DivisionByZero)
          /\ operandStack' = Pop(Pop(operandStack))
          /\ ~undefined']_vars

\* 0.5 / 0.0 has failed.
C19_Witness ==
    /\ phase = "done"
    /\ infixTokens = <<RealTok(1, 2), OperatorTok("Division"), RealTok(0, 1)>>
    /\ operandStack = <<>>
    /\ outcome = Failed("evaluate", DivisionByZero)

\* C20 as stated: Modulus with a right operand equal to zero fails with
\* DivisionByZero, the error the evaluator's own zero test raises, and pushes
\* no result.
C20_ModulusByZeroFails ==
    [][(NumericStep({OperatorTok("Modulus")})
        /\ is_Integer(LeftOperand) /\ is_Integer(RightOperand) /\ RightIsZero)
       => /\ phase' = "done"
          /\ outcome' = Failed("evaluate", DivisionByZero)
          /\ operandStack' = Pop(Pop(operandStack))]_vars

\* 1 % 0 has ended with the exception of the integer library.
C20_Witness ==
    /\ phase = "done"
    /\ infixTokens = <<One, OperatorTok("Modulus"), IntegerTok(0)>>
    /\ operandStack = <<>>
    /\ outcome = Failed("evaluate", BoostDivisionByZero)

-----------------------------------------------------------------------------
(* Claims about operand types. *)

ArithmeticOperations ==
    {OperatorTok(o) : o \in {"Addition", "Subtraction", "Multiplication", "Division", "Power"}}
    \cup {FunctionTok("Max"), FunctionTok("Min")}

\* C21 as stated: a Boolean operand given to Addition, Subtraction,
\* Multiplication, Division, Power, max or min, alone or with a numeric
\* operand, makes evaluate fail with the InvalidOperandType error.
C21_BooleanInArithmeticFails ==
    [][(/\ phase = "evaluating"
        /\ pos <= Len(rpnExpression)
        /\ CurrentRpnToken \in ArithmeticOperations
        /\ Len(operandStack) >= 2
        /\ is_Value(LeftOperand)
        /\ is_Value(RightOperand)
        /\ (is_Boolean(LeftOperand) \/ is_Boolean(RightOperand)))
       => /\ ~undefined'
          /\ phase' = "done"
          /\ outcome'.stage = "evaluate"
          /\ outcome'.status = "error"]_vars

\* true + 1 has executed undefined behaviour.
C21_Witness ==
    /\ rpnExpression = <<BooleanTok(TRUE), One, Plus>>
    /\ pos = 3
    /\ undefined

-----------------------------------------------------------------------------
(* Claims about the logical operators. *)

\* The steps of the evaluation loop for the postfix a b o not, from an empty
\* value stack.
NotOf(o, a, b) ==
    EvalToken(OperatorTok("Not"), EvalToken(OperatorTok(o), <<a, b>>, cells).stk, cells)

Negated(o) ==
    CASE o = "Nand" -> "And"
      [] o = "Nor" -> "Or"
      [] o = "Xnor" -> "Xor"
      [] o = "And" -> "Nand"
      [] o = "Or" -> "Nor"
      [] o = "Xor" -> "Xnor"

\* C22: for all Boolean pairs (x, y) the evaluator gives
\* Nand(x, y) = Not(And(x, y)), Nor(x, y) = Not(Or(x, y)) and
\* Xnor(x, y) = Not(Xor(x, y)): the value returned for x o y is the value the
\* loop computes for x y o' not, and the value returned for not ( x o' y ) is
\* the value of x o y, o' being the operator that o negates.
C22_NegatedOperators ==
    \A o \in {"Nand", "Nor", "Xnor"} :
        /\ (/\ phase = "done"
            /\ Len(rpnExpression) = 3
            /\ is_Boolean(rpnExpression[1])
            /\ is_Boolean(rpnExpression[2])
            /\ rpnExpression[3] = OperatorTok(o))
           => /\ NotOf(Negated(o), rpnExpression[1], rpnExpression[2]).st = "ok"
              /\ outcome = Returned("evaluate",
                     Top(NotOf(Negated(o), rpnExpression[1], rpnExpression[2]).stk))
        /\ (/\ phase = "done"
            /\ Len(rpnExpression) = 4
            /\ is_Boolean(rpnExpression[1])
            /\ is_Boolean(rpnExpression[2])
            /\ rpnExpression[3] = OperatorTok(Negated(o))
            /\ rpnExpression[4] = OperatorTok("Not"))
           => outcome = Returned("evaluate",
                  Top(EvalToken(OperatorTok(o), SubSeq(rpnExpression, 1, 2), cells).stk))

\* true xnor false has returned false, as not ( true xor false ) does.
C22_Witness ==
    /\ phase = "done"
    /\ infixTokens = <<BooleanTok(TRUE), OperatorTok("Xnor"), BooleanTok(FALSE)>>
    /\ rpnExpression = <<BooleanTok(TRUE), BooleanTok(FALSE), OperatorTok("Xnor")>>
    /\ outcome = Returned("evaluate", BooleanTok(FALSE))
    /\ NotOf("Xor", BooleanTok(TRUE), BooleanTok(FALSE)).stk = <<BooleanTok(FALSE)>>

-----------------------------------------------------------------------------
(* Claims about Factorial and Power. *)

\* n! for the operands the model computes.
Product[n \in 0 .. MaxFactorial + 1] == IF n = 0 THEN 1 ELSE n * Product[n - 1]

FactorialStep ==
    /\ phase = "evaluating"
    /\ pos <= Len(rpnExpression)
    /\ CurrentRpnToken = Factorial
    /\ operandStack # <<>>

\* C23: Factorial of a negative Integer fails with the NegativeFactorial
\* error; for every Integer n >= 0 it yields the Integer n! (0! = 1); for an
\* operand that is not an Integer it fails with InvalidOperandType.
C23_FactorialCases ==
    [][FactorialStep =>
         LET operand == Top(operandStack)
         IN  /\ ~undefined'
             /\ (is_Integer(operand) /\ operand.val < 0)
                   => /\ phase' = "done"
                      /\ outcome' = Failed("evaluate", NegativeFactorial)
             /\ (is_Integer(operand) /\ operand.val \in 0 .. MaxFactorial)
                   => /\ phase' = "evaluating"
                      /\ operandStack' = Push(Pop(operandStack), IntegerTok(Product[operand.val]))
             /\ ~is_Integer(operand)
                   => /\ phase' = "done"
                      /\ outcome' = Failed("evaluate", InvalidOperandTypeExpected)]_vars

\* 0 ! has returned 1.
C23_Witness ==
    /\ phase = "done"
    /\ rpnExpression = <<IntegerTok(0), Factorial>>
    /\ outcome = Returned("evaluate", One)

-----------------------------------------------------------------------------
(* Claims about the function Result. *)

\* The call Result ( 1 ) has been parsed and evaluated.
ResultOfFirstCalled ==
    /\ phase = "done"
    /\ infixTokens = <<FunctionTok("Result"), LeftParenthesis, One, RightParenthesis>>

\* C25 as stated: evaluating the call Result(n) yields the Operand produced by
\* the n-th previously evaluated top-level expression of the session.  Once an
\* assignment to x has been evaluated (x holds a value) the session has a
\* first result, and Result ( 1 ) returns an Operand.
C25_ResultReturnsEarlierResult ==
    (ResultOfFirstCalled /\ cells["x"] # Empty)
        => /\ outcome.stage = "evaluate"
           /\ outcome.status = "ok"
           /\ is_Operand(outcome.value)

\* Result ( 1 ), submitted after x := 1 has returned, fails as an unsupported
\* function.
C25_Witness ==
    /\ ResultOfFirstCalled
    /\ cells["x"] = One
    /\ rpnExpression = <<One, FunctionTok("Result")>>
    /\ outcome = Failed("evaluate", UnsupportedFunction)

-----------------------------------------------------------------------------
(* Claims about the evaluator and the catalog's rules. *)

CatalogRules == {"Factorial", "Negation", "Assignment", "Modulus"}

\* The operands of the current operation, in the order they were pushed.
OperandList ==
    SubSeq(operandStack, Len(operandStack) - number_of_args(CurrentRpnToken) + 1,
           Len(operandStack))

\* C26 as stated, for the rules of Factorial, Negation, Assignment and
\* Modulus: the outcome the evaluator produces for the token (the pushed
\* Operand, the Variable mutation or the failure) equals the outcome of the
\* catalog rule t.evaluate(operands) with the operands in left-to-right order.
C26_EvaluatorFollowsCatalog ==
    [][(/\ phase = "evaluating"
        /\ pos <= Len(rpnExpression)
        /\ is_Operator(CurrentRpnToken)
        /\ CurrentRpnToken.name \in CatalogRules
        /\ Len(operandStack) >= number_of_args(CurrentRpnToken))
       => LET r == CatalogEvaluate(CurrentRpnToken, OperandList, cells)
          IN  /\ r.st = "ok" => /\ phase' = "evaluating"
                                /\ Top(operandStack') = r.value
                                /\ cells' = r.cells
              /\ r.st = "error" => outcome' = Failed("evaluate", r.err)
              /\ r.st = "ub" => undefined']_vars

\* The evaluator has failed on -1 !, for which Factorial::evaluate returns 1.
C26_Witness ==
    /\ phase = "done"
    /\ rpnExpression = <<IntegerTok(-1), Factorial>>
    /\ outcome = Failed("evaluate", NegativeFactorial)
    /\ CatalogEvaluate(Factorial, <<IntegerTok(-1)>>, cells).value = One

-----------------------------------------------------------------------------
(* Claims about tokens of no accepted kind. *)

ParserAccepts(t) ==
    \/ is_Operand(t) \/ is_Operator(t) \/ is_Function(t)
    \/ is_LeftParenthesis(t) \/ is_RightParenthesis(t) \/ is_ArgumentSeparator(t)

EvaluatorAccepts(t) == is_Operand(t) \/ is_Operator(t) \/ is_Function(t)

\* C27: a token that is none of the kinds a stage accepts makes that stage
\* fail with UnknownToken at that token: parse on a token that is not Operand,
\* Operator, Function, LeftParenthesis, RightParenthesis or ArgumentSeparator,
\* evaluate on a token that is not Operand, Operator or Function (a
\* parenthesis inside a postfix sequence); neither goes on past the token.
C27_UnknownTokenFails ==
    /\ [][(/\ phase = "parsing"
           /\ pos <= Len(infixTokens)
           /\ ~ParserAccepts(infixTokens[pos]))
          => /\ phase' = "done"
             /\ outcome' = Failed("parse", UnknownTokenParse)
             /\ pos' = pos
             /\ outputQueue' = outputQueue
             /\ operatorStack' = operatorStack]_vars
    /\ [][(/\ phase = "evaluating"
           /\ pos <= Len(rpnExpression)
           /\ ~EvaluatorAccepts(CurrentRpnToken))
          => /\ phase' = "done"
             /\ outcome' = Failed("evaluate", UnknownTokenEvaluate)
             /\ pos' = pos
             /\ operandStack' = operandStack
             /\ ~undefined']_vars

\* evaluate has failed at the parenthesis of the postfix sequence 1 (.
C27_Witness ==
    /\ phase = "done"
    /\ rpnExpression = <<One, LeftParenthesis>>
    /\ pos = 2
    /\ operandStack = <<One>>
    /\ outcome = Failed("evaluate", UnknownTokenEvaluate)

-----------------------------------------------------------------------------
(* Claims about the calls of a session. *)

\* The tokens of a sequence.
Range(seq) == {seq[i] : i \in 1 .. Len(seq)}

\* The postfix sequence is the output queue that a parse call has returned
\* (not a sequence handed to evaluate directly).
ParseReturnedQueue == ParseReturned /\ outputQueue = rpnExpression

C29_OnlyAssignmentChangesCells ==
    [][(/\ phase \in {"postfix", "evaluating"}
        /\ Assign \notin Range(rpnExpression)
        /\ ~undefined')
       => cells' = cells]_vars

\* not x has returned false and x still holds true.
C29_Witness ==
    /\ phase = "done"
    /\ rpnExpression = <<X, OperatorTok("Not")>>
    /\ outcome = Returned("evaluate", BooleanTok(FALSE))
    /\ cells["x"] = BooleanTok(TRUE)

\* Between two calls nothing of the last call is left: the session's state is
\* the Variable cells.
NothingLeftOfTheCall ==
    /\ infixTokens = <<>>
    /\ rpnExpression = <<>>
    /\ outputQueue = <<>>
    /\ operatorStack = <<>>
    /\ operandStack = <<>>
    /\ pos = 1
    /\ outcome = NoOutcome
    /\ ~undefined

-----------------------------------------------------------------------------
(* Claims about the functions' operand types. *)

NumericOneArgFunctions ==
    {"Sqrt", "Sin", "Cos", "Tan", "Arcsin", "Arccos", "Arctan", "Exp", "Ln", "Lb",
     "Floor", "Ceil", "Abs"}

\* C31 as stated: a step of evaluate that applies sqrt, sin, cos, tan,
\* arcsin, arccos, arctan, exp, ln, lb, floor, ceil or abs to an Integer or a
\* Real, or arctan2 to two operands each an Integer or a Real, pushes a
\* result: it neither throws nor executes undefined behaviour.
C31_FunctionsAcceptIntegerAndReal ==
    [][(/\ phase = "evaluating"
        /\ pos <= Len(rpnExpression)
        /\ is_Function(CurrentRpnToken)
        /\ \/ /\ CurrentRpnToken.name \in NumericOneArgFunctions
              /\ Len(operandStack) >= 1
              /\ is_Numeric(Top(operandStack))
           \/ /\ CurrentRpnToken.name = "Arctan2"
              /\ Len(operandStack) >= 2
              /\ is_Numeric(LeftOperand) /\ is_Numeric(RightOperand))
       => /\ phase' = "evaluating"
          /\ ~undefined'
          /\ is_Numeric(Top(operandStack'))]_vars

\* sqrt ( 4 ) has failed with the type error of pop_operand_from_stack<Real>.
C31_Witness ==
    /\ phase = "done"
    /\ infixTokens = <<FunctionTok("Sqrt"), LeftParenthesis, IntegerTok(4), RightParenthesis>>
    /\ rpnExpression = <<IntegerTok(4), FunctionTok("Sqrt")>>
    /\ outcome = Failed("evaluate", InvalidOperandTypeExpected)

-----------------------------------------------------------------------------
(* Claims about the comparison of Booleans. *)

Comparisons == {"Equality", "Inequality", "Greater", "GreaterEqual", "Less", "LessEqual"}

\* A step of evaluate applies a comparison to two Booleans.
BooleanComparisonStep ==
    /\ phase = "evaluating"
    /\ pos <= Len(rpnExpression)
    /\ is_Operator(CurrentRpnToken)
    /\ CurrentRpnToken.name \in Comparisons
    /\ Len(operandStack) >= 2
    /\ is_Boolean(LeftOperand) /\ is_Boolean(RightOperand)

\* The comparisons among Less, Equality and Greater that evaluate answers
\* with true for the Booleans x and y.
TrueAmong(x, y) ==
    {o \in {"Less", "Equality", "Greater"} :
        evaluate(<<BooleanTok(x), BooleanTok(y), OperatorTok(o)>>, cells).value
            = BooleanTok(TRUE)}

\* C32 as stated: for all Booleans x and y exactly one of Less, Equality and
\* Greater is true and Less(false, true) is true; and each of the six
\* comparisons applied to two Booleans, by the evaluator's branch and by the
\* operator's own evaluate rule alike, yields the comparison of their values
\* with false before true.
C32_BooleansAreOrdered ==
    /\ [](/\ \A x \in BOOLEAN, y \in BOOLEAN : Cardinality(TrueAmong(x, y)) = 1
          /\ "Less" \in TrueAmong(FALSE, TRUE))
    /\ [][BooleanComparisonStep
          => LET byValue == BooleanTok(Cmp(CurrentRpnToken.name, LeftOperand.val,
                                           RightOperand.val))
                 r == CatalogEvaluate(CurrentRpnToken, OperandList, cells)
             IN  /\ phase' = "evaluating"
                 /\ Top(operandStack') = byValue
                 /\ r.st = "ok"
                 /\ r.value = byValue]_vars

\* false < true has been evaluated to true, and Less::evaluate dereferences a
\* null pointer on the same operands.
C32_Witness ==
    /\ phase = "done"
    /\ rpnExpression = <<BooleanTok(FALSE), BooleanTok(TRUE), OperatorTok("Less")>>
    /\ outcome = Returned("evaluate", BooleanTok(TRUE))
    /\ CatalogEvaluate(OperatorTok("Less"), <<BooleanTok(FALSE), BooleanTok(TRUE)>>, cells).st = "ub"

-----------------------------------------------------------------------------
(* Claims about the width of exponents. *)

\* A step of evaluate raises an Integer to an Integer exponent that is not
\* negative, with the operator Power or the function Pow.
IntegerPowerStep ==
    /\ phase = "evaluating"
    /\ pos <= Len(rpnExpression)
    /\ CurrentRpnToken \in {Power, Pow}
    /\ Len(operandStack) >= 2
    /\ is_Integer(LeftOperand) /\ is_Integer(RightOperand)
    /\ RightOperand.name = "wide" \/ RightOperand.val >= 0

\* b multiplied by itself e times, for the exponents whose power the model
\* can name: a small one, or a wide one (an even multiple of 2 ^ 32 plus the
\* low word) under a base in -1 .. 1.
PowerNamed(b, e) ==
    IF e.name = "wide" THEN AbsInt(b.val) <= 1
    ELSE PowComputable(b.val, e.val)

PowerByMultiplication(b, e) ==
    IF e.name # "wide" THEN RefPower(b.val, e.val)
    ELSE IF b.val = -1 THEN (IF e.val % 2 = 0 THEN 1 ELSE -1)
    ELSE b.val

\* C33 as stated: b ^ e and pow ( b , e ) for an Integer b and an Integer
\* e >= 0 yield the Integer b multiplied by itself e times, also for an e of
\* more than 32 bits: 0 ^ 4294967296 is 0.
C33_ExponentIsNotTruncated ==
    [][(IntegerPowerStep /\ PowerNamed(LeftOperand, RightOperand))
       => /\ phase' = "evaluating"
          /\ Top(operandStack') = IntegerTok(PowerByMultiplication(LeftOperand, RightOperand))]_vars

\* 0 ^ 4294967296 has returned 1, the value of 0 ^ 0.
C33_Witness ==
    /\ phase = "done"
    /\ rpnExpression = <<IntegerTok(0), WideIntegerTok(1, 0), Power>>
    /\ outcome = Returned("evaluate", IntegerTok(1))

-----------------------------------------------------------------------------
(* Claims about the shape of the postfix sequence. *)

\* The scan of an infix sequence by its grammar: what may come next (an
\* operand, an operator, or the LeftParenthesis of a call) and the number of
\* open parentheses, after the first k tokens; "bad" once a token is out of
\* place.
RECURSIVE InfixScan(_, _)
InfixScan(seq, k) ==
    IF k = 0 THEN [want |-> "operand", depth |-> 0]
    ELSE LET s == InfixScan(seq, k - 1)
             t == seq[k]
             bad == [want |-> "bad", depth |-> 0]
         IN  CASE s.want = "operand" ->
                    IF is_Operand(t) THEN [s EXCEPT !.want = "operator"]
                    ELSE IF is_Operator(t) /\ t.name \in UnaryOperators THEN s
                    ELSE IF is_Function(t) THEN [s EXCEPT !.want = "call"]
                    ELSE IF is_LeftParenthesis(t) THEN [s EXCEPT !.depth = @ + 1]
                    ELSE bad
               [] s.want = "call" ->
                    IF is_LeftParenthesis(t) THEN [want |-> "operand", depth |-> s.depth + 1]
                    ELSE bad
               [] s.want = "operator" ->
                    IF is_Operator(t) /\ t.name \in BinaryOperators
                    THEN [s EXCEPT !.want = "operand"]
                    ELSE IF is_Operator(t) /\ t.name \in PostfixOperators THEN s
                    ELSE IF is_RightParenthesis(t) /\ s.depth > 0
                    THEN [s EXCEPT !.depth = @ - 1]
                    ELSE IF is_ArgumentSeparator(t) /\ s.depth > 0
                    THEN [s EXCEPT !.want = "operand"]
                    ELSE bad
               [] OTHER -> bad

WellFormedInfix(seq) ==
    LET s == InfixScan(seq, Len(seq)) IN s.want = "operator" /\ s.depth = 0

\* The number of values left after the first k tokens of a postfix sequence
\* scanned left to right, -1 once an operator or function had fewer values
\* before it than its arity.
RECURSIVE ValuesAfter(_, _)
ValuesAfter(seq, k) ==
    IF k = 0 THEN 0
    ELSE LET d == ValuesAfter(seq, k - 1)
             t == seq[k]
         IN  IF d < 0 THEN -1
             ELSE IF is_Operand(t) THEN d + 1
             ELSE IF d < number_of_args(t) THEN -1
             ELSE d - number_of_args(t) + 1

WellFormedPostfix(seq) == ValuesAfter(seq, Len(seq)) = 1

\* C34 as stated: whenever parse has returned for a well-formed infix
\* expression, also one with a prefix operator right after a binary operator
\* of higher precedence, the sequence it returned is a well-formed postfix
\* sequence: every operator is preceded by enough values for its arity and
\* exactly one value remains at the end.
C34_PostfixIsWellFormed ==
    (ParseReturnedQueue /\ WellFormedInfix(infixTokens)) => WellFormedPostfix(rpnExpression)

\* parse has returned 2 ^ 1 - for 2 ^ - 1: Power comes with one value before it.
C34_Witness ==
    /\ infixTokens = <<IntegerTok(2), Power, OperatorTok("Negation"), One>>
    /\ outcome = Returned("parse", Empty)
    /\ rpnExpression = <<IntegerTok(2), Power, One, OperatorTok("Negation")>>
    /\ WellFormedInfix(infixTokens)
    /\ ~WellFormedPostfix(rpnExpression)

-----------------------------------------------------------------------------
(* Claims about the effect of a failed evaluation. *)

\* evaluate is entered: the cells are those before the call.
EvaluateEntered == phase = "postfix" /\ phase' = "evaluating"

\* C35 as stated: whenever evaluate, called on a postfix sequence, fails
\* (throws at a token or at the final stack check), every Variable cell holds
\* after the call the value it held before the call, also when an Assignment
\* was processed before the failure.
C35_FailedEvaluationHasNoEffect ==
    [][EvaluateEntered
       => LET r == evaluate(rpnExpression, cells)
          IN  r.st = "error" => r.cells = cells]_vars

\* x 1 := 1, evaluated with x holding no value, has failed at the final stack
\* check and x holds 1.
C35_Witness ==
    /\ phase = "done"
    /\ rpnExpression = <<X, One, Assign, One>>
    /\ outcome = Failed("evaluate", TooManyOperands)
    /\ cells["x"] = One
    /\ LET before == [cells EXCEPT !["x"] = Empty]
       IN  /\ evaluate(rpnExpression, before).st = "error"
           /\ evaluate(rpnExpression, before).cells = cells

-----------------------------------------------------------------------------
(* Claims about the tokens of the postfix sequence. *)

Occurrences(seq, t) == Cardinality({i \in 1 .. Len(seq) : seq[i] = t})

is_Punctuation(t) ==
    is_LeftParenthesis(t) \/ is_RightParenthesis(t) \/ is_ArgumentSeparator(t)

\* C36: whenever parse has returned, the sequence it returned holds no
\* LeftParenthesis, RightParenthesis or ArgumentSeparator, holds every
\* Operand, Operator and Function token as often as the input does (so its
\* length is the input's less the parentheses and separators), and lists the
\* Operands in the order of the input.
C36_ParseKeepsTheTokens ==
    ParseReturnedQueue
    => /\ \A t \in Range(rpnExpression) : ~is_Punctuation(t)
       /\ \A t \in Range(infixTokens) \cup Range(rpnExpression) :
            ~is_Punctuation(t)
            => Occurrences(rpnExpression, t) = Occurrences(infixTokens, t)
       /\ Len(rpnExpression)
            = Len(infixTokens) - Cardinality({i \in 1 .. Len(infixTokens) :
                                                 is_Punctuation(infixTokens[i])})
       /\ SelectSeq(rpnExpression, is_Operand) = SelectSeq(infixTokens, is_Operand)

\* parse has returned 1 max for max ( 1 ): four tokens in, two out.
C36_Witness ==
    /\ phase = "postfix"
    /\ infixTokens = <<MaxFn, LeftParenthesis, One, RightParenthesis>>
    /\ outcome = Returned("parse", Empty)
    /\ rpnExpression = <<One, MaxFn>>

-----------------------------------------------------------------------------
(* Claims about the function pow and the operator Power. *)

\* evaluate has ended on b e ^ or b e pow for two numbers b and e.
PowerEvaluated ==
    /\ phase = "done"
    /\ outcome.stage = "evaluate"
    /\ Len(rpnExpression) = 3
    /\ is_Numeric(rpnExpression[1]) /\ is_Numeric(rpnExpression[2])
    /\ rpnExpression[3] \in {Power, Pow}

\* The same operands under the other of Power and pow.
OtherPower == IF rpnExpression[3] = Power THEN Pow ELSE Power

\* C37 as stated: for two operands b and e, each an Integer or a Real, also a
\* negative Integer e under an Integer b, b ^ e and pow ( b , e ) have the
\* same outcome: the same result (type and value), or both fail.
C37_PowAgreesWithPower ==
    (PowerEvaluated /\ outcome.status \in {"ok", "error"})
    => LET r == evaluate(<<rpnExpression[1], rpnExpression[2], OtherPower>>, cells)
       IN  IF outcome.status = "ok" THEN r.st = "ok" /\ r.value = outcome.value
           ELSE r.st = "error"

\* 1 ^ -1 has returned the Real 1, and pow ( 1 , -1 ) does not return it.
C37_Witness ==
    /\ phase = "done"
    /\ rpnExpression = <<One, IntegerTok(-1), Power>>
    /\ outcome = Returned("evaluate", RealTok(1, 1))
    /\ LET r == evaluate(<<One, IntegerTok(-1), Pow>>, cells)
       IN  ~(r.st = "ok" /\ r.value = outcome.value)

-----------------------------------------------------------------------------
(* Claims about the evaluator's dispatch. *)

\* A step of evaluate applies an operator or function of the catalog to a
\* stack that holds at least as many operands as its arity.
CatalogStep ==
    /\ phase = "evaluating"
    /\ pos <= Len(rpnExpression)
    /\ \/ is_Operator(CurrentRpnToken) /\ CurrentRpnToken.name \in Operators
       \/ is_Function(CurrentRpnToken) /\ CurrentRpnToken.name \in Functions
    /\ Len(operandStack) >= number_of_args(CurrentRpnToken)

\* C38 as stated: no operator or function the catalog declares, the base-10
\* logarithm Log included, applied to the right number of operands, ends the
\* call with "Unsupported operator" or "Unsupported function".
C38_DispatchIsExhaustive ==
    [][CatalogStep
       => outcome' \notin {Failed("evaluate", UnsupportedOperator),
                           Failed("evaluate", UnsupportedFunction)}]_vars

\* log ( 1/2 ) has failed with "Unsupported function".
C38_Witness ==
    /\ phase = "done"
    /\ rpnExpression = <<RealTok(1, 2), FunctionTok("Log")>>
    /\ outcome = Failed("evaluate", UnsupportedFunction)

-----------------------------------------------------------------------------
(* Claims about associativity classes. *)

AssociativityClass(o) ==
    IF o \in LAssocOperators THEN "left"
    ELSE IF o \in RAssocOperators THEN "right"
    ELSE "none"

\* Operators of one precedence level are of one associativity class.
SameLevelSameClass ==
    \A o1 \in Operators, o2 \in Operators :
        precedence(OperatorTok(o1)) = precedence(OperatorTok(o2))
        => AssociativityClass(o1) = AssociativityClass(o2)

\* The loop of the operator branch with the tie at equal precedence decided
\* by the class of the incoming operator op.
RECURSIVE PopOperatorsByIncoming(_, _, _)
PopOperatorsByIncoming(op, out, stk) ==
    IF stk # <<>> /\ is_Operator(Top(stk))
    THEN LET topOp == Top(stk)
             higherPrecedence == precedence(topOp) > precedence(op)
             equalPrecedence == precedence(topOp) = precedence(op)
         IN  IF higherPrecedence \/ (is_LAssocOperator(op) /\ equalPrecedence)
             THEN PopOperatorsByIncoming(op, Append(out, topOp), Pop(stk))
             ELSE [out |-> out, stk |-> stk]
    ELSE [out |-> out, stk |-> stk]

\* parse is about to read an operator.
OperatorIncoming ==
    /\ phase = "parsing"
    /\ pos <= Len(infixTokens)
    /\ is_Operator(infixTokens[pos])

\* C39: any two operators of the catalog with the same precedence level have
\* the same associativity class, and at every operator parse reads, deciding
\* the tie by the class of the operator on top of the stack leaves the same
\* queue and stack as deciding it by the class of the incoming operator.
C39_TieBreakByEitherOperator ==
    /\ SameLevelSameClass
    /\ OperatorIncoming
       => PopOperators(infixTokens[pos], outputQueue, operatorStack)
            = PopOperatorsByIncoming(infixTokens[pos], outputQueue, operatorStack)

\* parse reads the second Power of a ^ b ^ c with the first on top of the
\* stack, and keeps it there.
C39_Witness ==
    /\ OperatorIncoming
    /\ infixTokens[pos] = Power
    /\ operatorStack = <<Power>>
    /\ PopOperators(Power, outputQueue, operatorStack).stk = <<Power>>

=============================================================================
